---- MODULE Spec2Model ----
(***************************************************************************)
(* Change-set reconciliation of Streamlit_FinMap: CSV / UI candidates are  *)
(* normalized, validated against the metric hierarchy, diffed against the  *)
(* baseline loaded from the store and applied with one MERGE through a     *)
(* staging table.  The three executors (execute_merge_operation,           *)
(* execute_adjustment_upsert_merge, save_hierarchy_changes) are modelled   *)
(* one store call per step; every store call may raise.                     *)
(*                                                                         *)
(* Strings are sequences of one-character strings so that strip / lower /  *)
(* to_numeric are computed, not assumed.                                    *)
(***************************************************************************)
EXTENDS Integers, Sequences, FiniteSets, TLC

VARIABLES
    tables,     \* the store: table name -> sequence of rows
    staging,    \* the staging (temp) table of the running call
    pc,         \* position of the running request
    req,        \* the request being served (page, candidates, mode)
    changes,    \* change records handed to the executor
    call,       \* locals of the running executor call
    issued,     \* store statements issued by the running call, in order
    result,     \* what the executor returned
    now,        \* the wall clock, in ticks
    cache       \* st.cache_data entries of the cascade loaders: key -> tree

vars == <<tables, staging, pc, req, changes, call, issued, result, now, cache>>

----------------------------------------------------------------------------
(* Bounds of the model *)

MaxBatch == 2       \* candidate rows per request

----------------------------------------------------------------------------
(* Values *)

\* pandas NaN / None / SQL NULL in a text column
Null == <<"<NA>">>

isna(v) == v = Null

RECURSIVE lstrip(_)
lstrip(s) ==
    IF s = <<>> THEN <<>>
    ELSE IF Head(s) = " " THEN lstrip(Tail(s)) ELSE s

RECURSIVE rstrip(_)
rstrip(s) ==
    IF s = <<>> THEN <<>>
    ELSE IF s[Len(s)] = " " THEN rstrip(SubSeq(s, 1, Len(s) - 1)) ELSE s

\* str.strip()
strip(s) == rstrip(lstrip(s))

LowerChar(c) ==
    CASE c = "N" -> "n"
      [] c = "A" -> "a"
      [] c = "U" -> "u"
      [] c = "L" -> "l"
      [] c = "O" -> "o"
      [] c = "E" -> "e"
      [] OTHER -> c

\* str.lower()
lower(s) == [i \in 1..Len(s) |-> LowerChar(s[i])]

NullWords == { <<"n","a","n">>, <<"n","o","n","e">>, <<"n","u","l","l">> }

\* utils/validators.py normalize_value
normalize_value(value) ==
    IF isna(value) THEN <<>>
    ELSE LET str_val == strip(value)
         IN  IF lower(str_val) \in NullWords THEN <<>> ELSE str_val

\* utils/data_loader.py normalize
normalize(value) ==
    IF isna(value) \/ strip(value) = <<>> THEN <<>> ELSE strip(value)

(* pd.to_numeric(errors='coerce'): surrounding blanks are ignored, an      *)
(* integer or decimal literal parses, anything else is NaN.                 *)
NaN == -1

DigitVal(c) ==
    CASE c = "0" -> 0 [] c = "1" -> 1 [] c = "2" -> 2 [] c = "3" -> 3
      [] c = "4" -> 4 [] c = "5" -> 5 [] c = "6" -> 6 [] c = "7" -> 7
      [] c = "8" -> 8 [] c = "9" -> 9 [] OTHER -> NaN

IsDigits(s) == s # <<>> /\ \A i \in 1..Len(s) : DigitVal(s[i]) # NaN

RECURSIVE IntOf(_)
IntOf(s) == IF s = <<>> THEN 0 ELSE 10 * IntOf(SubSeq(s, 1, Len(s) - 1)) + DigitVal(s[Len(s)])

DotAt(s) == { i \in 1..Len(s) : s[i] = "." }

\* the value of a numeric literal truncated by astype(int)
to_numeric(raw) ==
    IF isna(raw) THEN NaN
    ELSE LET s == strip(raw)
         IN  IF IsDigits(s) THEN IntOf(s)
             ELSE IF Cardinality(DotAt(s)) = 1
                  THEN LET d == CHOOSE i \in DotAt(s) : TRUE
                           ip == SubSeq(s, 1, d - 1)
                           fp == SubSeq(s, d + 1, Len(s))
                       IN  IF IsDigits(ip) /\ (fp = <<>> \/ IsDigits(fp))
                           THEN IntOf(ip) ELSE NaN
                  ELSE NaN

\* pd.to_numeric(df[pk], errors='coerce').fillna(0).astype(int)
pk_to_int(raw) == LET n == to_numeric(raw) IN IF n = NaN THEN 0 ELSE n

----------------------------------------------------------------------------
(* Tables and rows *)

\* config["primary_keys"]: the composite key of the mapping table
PRIMARY_KEYS == <<"PK1", "PK2">>

\* the tracked mapping columns
MAPPING_COLS ==
    <<"METRIC_L1", "METRIC_L2", "METRIC_L3", "METRIC_L4", "METRIC_L5", "METRIC_L6",
      "IS_BS", "CASHFLOW_L1", "CASHFLOW_L2", "CASHFLOW_L3", "DEBT_MAPPING">>

Range(s) == { s[i] : i \in 1..Len(s) }

Cols == Range(MAPPING_COLS)

\* session.sql("SELECT CURRENT_USER()")
current_user == "user"

\* audit columns never written: NULL
NoAudit == [by |-> "", at |-> ""]

\* "[NULL/Blank]": how a blank value is shown in a field diff
BlankDisplay == <<"[NULL/Blank]">>

RECURSIVE drop_duplicates(_)
drop_duplicates(s) ==
    IF s = <<>> THEN <<>>
    ELSE LET init == drop_duplicates(SubSeq(s, 1, Len(s) - 1))
             last == s[Len(s)]
         IN  IF last \in Range(init) THEN init ELSE Append(init, last)

\* utils/data_loader.py load_actual_data: keys to int (NULL -> 0), every
\* mapping column through normalize, audit columns projected away,
\* identical rows dropped
load_actual_data(table) ==
    drop_duplicates(
        [i \in 1..Len(table) |->
            [pk |-> [k \in 1..Len(PRIMARY_KEYS) |->
                        IF table[i].pk[k] = NaN THEN 0 ELSE table[i].pk[k]],
             m  |-> [c \in Cols |-> normalize(table[i].m[c])]]])

----------------------------------------------------------------------------
(* components/preview.py: the diff engine *)

\* original_df[col].fillna("").astype(str).str.strip()
baseline_clean(v) == IF isna(v) THEN <<>> ELSE strip(v)

\* groupby(primary_keys).agg('first'): the first baseline row of a key
first_of_key(original_df, pk) ==
    LET hits == { j \in 1..Len(original_df) : original_df[j].pk = pk }
    IN  IF hits = {} THEN 0
        ELSE CHOOSE j \in hits : \A h \in hits : j <= h

\* the value of f"{col}_old" in the left-merged row: NaN without a match
old_val(original_df, pk, col) ==
    LET j == first_of_key(original_df, pk)
    IN  IF j = 0 THEN Null ELSE baseline_clean(original_df[j].m[col])

\* a comparison that keeps surrounding blanks
diff_str_unstripped(v) == IF isna(v) \/ v = <<>> THEN <<>> ELSE v

\* "" if pd.isna(v) or v == "" else str(v).strip()
diff_str(v) == IF isna(v) \/ v = <<>> THEN <<>> ELSE strip(v)

\* the per-field comparison of one candidate row
changed_fields(row, original_df, mapping_cols) ==
    LET changed == { c \in Range(mapping_cols) :
                       diff_str(old_val(original_df, row.pk, c)) # diff_str(row.m[c]) }
    IN  [c \in changed |->
            LET old_str == diff_str(old_val(original_df, row.pk, c))
                new_str == diff_str(row.m[c])
            IN  [before |-> IF old_str = <<>> THEN BlankDisplay ELSE old_str,
                 after  |-> IF new_str = <<>> THEN BlankDisplay ELSE new_str]]

change_info(row, original_df, mapping_cols) ==
    [primary_keys   |-> row.pk,
     changed_fields |-> changed_fields(row, original_df, mapping_cols),
     full_row       |-> row]

has_change(c) == DOMAIN c.changed_fields # {}

\* generate_changes_from_csv: one change record per candidate row with at
\* least one field diff, in candidate order
generate_changes_from_csv(new_df, original_df, mapping_cols) ==
    SelectSeq([i \in 1..Len(new_df) |-> change_info(new_df[i], original_df, mapping_cols)],
              has_change)

\* generate_changes_from_edited_rows: the edit map as a table, then the same diff
generate_changes_from_edited_rows(edited_rows, original_df, mapping_cols) ==
    IF edited_rows = <<>> THEN <<>>
    ELSE generate_changes_from_csv(edited_rows, original_df, mapping_cols)

----------------------------------------------------------------------------
(* utils/validators.py: normalization of an uploaded table and the         *)
(* hierarchy validator                                                      *)

METRIC_COLUMNS ==
    <<"METRIC_L1", "METRIC_L2", "METRIC_L3", "METRIC_L4", "METRIC_L5", "METRIC_L6">>

CASHFLOW_COLUMNS == <<"CASHFLOW_L1", "CASHFLOW_L2", "CASHFLOW_L3">>

\* normalize_csv_data: keys to int (unparsable -> 0), mapping columns
\* through normalize_value
normalize_csv_data(csv_df) ==
    [i \in 1..Len(csv_df) |->
        [pk |-> [k \in 1..Len(PRIMARY_KEYS) |-> pk_to_int(csv_df[i].pk[k])],
         m  |-> [c \in Cols |-> normalize_value(csv_df[i].m[c])]]]

\* L1 + '|' + L2 + ... : the concatenated path key of a row
RECURSIVE path_key(_, _)
path_key(m, cols) ==
    IF Len(cols) = 1 THEN m[cols[1]]
    ELSE m[cols[1]] \o <<"|">> \o path_key(m, Tail(cols))

\* the path keys of a hierarchy table, every level through normalize_value
valid_paths(hier, cols) ==
    { path_key([c \in Range(cols) |-> normalize_value(hier[j].m[c])], cols) :
        j \in 1..Len(hier) }

\* load_debt_mapping() and config["Debt_mapping"]
DEBT_MAPPING_OPTIONS == { <<"d">> }

Is_DM == TRUE

LiabilityL1 == { <<"Current Liabilities">>, <<"Non-Current Liabilities">> }

\* the errors validate_csv_hierarchy collects for one normalized row
row_errors(m, metric_df, cashflow_df) ==
    LET is_bs == m["IS_BS"]
        l1 == m["METRIC_L1"]
        debt_val == m["DEBT_MAPPING"]
    IN  (IF path_key(m, METRIC_COLUMNS) \notin valid_paths(metric_df, METRIC_COLUMNS)
         THEN {"metric"} ELSE {})
        \cup
        (IF is_bs \notin { <<>>, <<"I","S">>, <<"B","S">> } THEN {"is_bs"} ELSE {})
        \cup
        (IF is_bs = <<"B","S">>
            /\ path_key(m, CASHFLOW_COLUMNS) \notin valid_paths(cashflow_df, CASHFLOW_COLUMNS)
         THEN {"cashflow"} ELSE {})
        \cup
        (IF is_bs = <<"I","S">> /\ path_key(m, CASHFLOW_COLUMNS) # <<"|", "|">>
         THEN {"cashflow_not_blank"} ELSE {})
        \cup
        (IF Is_DM /\ l1 \in LiabilityL1 /\ debt_val # <<>> /\ debt_val \notin DEBT_MAPPING_OPTIONS
         THEN {"debt_invalid"} ELSE {})
        \cup
        (IF Is_DM /\ l1 \notin LiabilityL1 /\ debt_val # <<>>
         THEN {"debt_not_blank"} ELSE {})

\* validate_csv_hierarchy: the positions of the rows with at least one
\* error (the table is put through the mapping-column normalization again)
validate_csv_hierarchy(csv_df, metric_df, cashflow_df) ==
    { i \in 1..Len(csv_df) :
        row_errors([c \in Cols |-> normalize_value(csv_df[i].m[c])],
                   metric_df, cashflow_df) # {} }

\* csv_df.duplicated(subset=keys, keep=False).any()
has_duplicates(df) ==
    \E i, j \in 1..Len(df) : i # j /\ df[i].pk = df[j].pk

----------------------------------------------------------------------------
(* components/adjustments_helper.py: adjustment uploads.  An adjustment is *)
(* identified by its account key and its PERIOD (ADJ_TYPE, YEAR and the     *)
(* display columns are the same for every row and left out); AMOUNT is      *)
(* kept as the text str() gives for the number.                             *)

AMOUNT_COLS == <<"AMOUNT">>

DigitChar(n) ==
    CASE n = 0 -> "0" [] n = 1 -> "1" [] n = 2 -> "2" [] n = 3 -> "3"
      [] n = 4 -> "4" [] n = 5 -> "5" [] n = 6 -> "6" [] n = 7 -> "7"
      [] n = 8 -> "8" [] OTHER -> "9"

\* str(n) of a number n >= 0
RECURSIVE str_of(_)
str_of(n) ==
    IF n < 10 THEN <<DigitChar(n)>>
    ELSE str_of(n \div 10) \o <<DigitChar(n % 10)>>

\* pd.to_numeric(..., errors='coerce').fillna(0)
amount_of(raw) == LET n == to_numeric(raw) IN IF n = NaN THEN 0 ELSE n

\* normalize_adjustment_csv: text stripped, key to int (blank or
\* unparsable -> 0), MONTH to a number or NaN, AMOUNT to a number (NaN -> 0)
normalize_adjustment_csv(csv_df) ==
    [i \in 1..Len(csv_df) |->
        [pk     |-> <<pk_to_int(strip(csv_df[i].pk[1]))>>,
         MONTH  |-> to_numeric(strip(csv_df[i].MONTH)),
         AMOUNT |-> amount_of(strip(csv_df[i].AMOUNT))]]

\* validate_adjustment_csv: the positions of the rows with an error
\* (MONTH required and within 1..12)
validate_adjustment_csv(csv_df) ==
    { i \in 1..Len(csv_df) :
        csv_df[i].MONTH = NaN \/ csv_df[i].MONTH < 1 \/ csv_df[i].MONTH > 12 }

\* csv_df_normalized.duplicated(subset=keys + MONTH, keep=False).any()
adjustment_duplicates(csv_df) ==
    has_duplicates([i \in 1..Len(csv_df) |->
                       [pk |-> csv_df[i].pk \o <<csv_df[i].MONTH>>]])

\* convert_month_year_to_period fails on a month that is not a number
period_fails(csv_df) == \E i \in 1..Len(csv_df) : csv_df[i].MONTH = NaN

\* prepare_upsert_dataframe(source_type='csv'): keys, PERIOD, AMOUNT
prepare_upsert_dataframe(csv_df) ==
    [i \in 1..Len(csv_df) |->
        [pk |-> csv_df[i].pk \o <<csv_df[i].MONTH>>,
         m  |-> [c \in Range(AMOUNT_COLS) |-> str_of(csv_df[i].AMOUNT)]]]

\* modules/Adjustments.py load_adjustments_data: key to int (NULL -> 0),
\* AMOUNT to a number (NULL -> 0)
load_adjustments_data(table) ==
    [i \in 1..Len(table) |->
        [pk |-> <<IF table[i].pk[1] = NaN THEN 0 ELSE table[i].pk[1], table[i].pk[2]>>,
         m  |-> [c \in Range(AMOUNT_COLS) |-> str_of(amount_of(table[i].m[c]))]]]

\* modules/Zeus.py load_adjustments_data: the table as stored
zeus_load_adjustments_data(table) ==
    [i \in 1..Len(table) |-> [pk |-> table[i].pk, m |-> table[i].m]]

----------------------------------------------------------------------------
(* The store: MERGE INTO target USING staging ON keys                      *)

\* TARGET.pk = SOURCE.pk for every key column; a NULL key equals nothing
key_match(t, s) ==
    \A k \in 1..Len(t.pk) : t.pk[k] # NaN /\ s.pk[k] # NaN /\ t.pk[k] = s.pk[k]

sources_of(t, source) == { j \in 1..Len(source) : key_match(t, source[j]) }

\* a target row joined by two staged rows makes the MERGE fail
deterministic_merge(target, source) ==
    \A i \in 1..Len(target) : Cardinality(sources_of(target[i], source)) <= 1

\* an UPDATE branch that leaves the audit columns alone
merge_update_unaudited(t, source, set_cols, user, ts) ==
    IF sources_of(t, source) = {} THEN t
    ELSE LET j == CHOOSE x \in sources_of(t, source) : TRUE
         IN  [t EXCEPT !.m = [c \in DOMAIN t.m |->
                                 IF c \in set_cols THEN source[j].m[c] ELSE t.m[c]]]

\* an UPDATE branch without the ON condition: every target row is touched
merge_update_unkeyed(t, source, set_cols, user, ts) ==
    IF source = <<>> THEN t
    ELSE [t EXCEPT !.m   = [c \in DOMAIN t.m |->
                              IF c \in set_cols THEN source[1].m[c] ELSE t.m[c]],
                   !.upd = [by |-> user, at |-> ts]]

\* WHEN MATCHED THEN UPDATE SET <set_cols>, LAST_UPDATED_BY, LAST_UPDATED_AT
merge_update(t, source, set_cols, user, ts) ==
    IF sources_of(t, source) = {} THEN t
    ELSE LET j == CHOOSE x \in sources_of(t, source) : TRUE
         IN  [t EXCEPT !.m   = [c \in DOMAIN t.m |->
                                   IF c \in set_cols THEN source[j].m[c] ELSE t.m[c]],
                       !.upd = [by |-> user, at |-> ts]]

\* WHEN NOT MATCHED THEN INSERT (..., CREATED_BY, CREATED_AT)
merge_inserts(target, source, user, ts) ==
    LET unmatched(s) == \A i \in 1..Len(target) : ~key_match(target[i], s)
        fresh == SelectSeq(source, unmatched)
    IN  [j \in 1..Len(fresh) |->
            [pk |-> fresh[j].pk, m |-> fresh[j].m,
             upd |-> NoAudit, crt |-> [by |-> user, at |-> ts]]]

\* the table after the MERGE and the counts of its result row
merge_into(target, source, set_cols, upsert, user, ts) ==
    LET ins == IF upsert THEN merge_inserts(target, source, user, ts) ELSE <<>>
    IN  [table    |-> [i \in 1..Len(target) |->
                          merge_update(target[i], source, set_cols, user, ts)] \o ins,
         inserted |-> Len(ins),
         updated  |-> Cardinality({ i \in 1..Len(target) :
                                      sources_of(target[i], source) # {} })]

----------------------------------------------------------------------------
(* Data the behaviours start from *)

A == <<"a">>
B == <<"b">>
C == <<"c">>
Sp == <<" ">>
SpA == <<" ", "a">>
BS == <<"B", "S">>

\* a row of mapping values: the named columns, every other column `fill`
MRow(l1, l2, is_bs, cf1, fill) ==
    [c \in Cols |->
        CASE c = "METRIC_L1"   -> l1
          [] c = "METRIC_L2"   -> l2
          [] c = "IS_BS"       -> is_bs
          [] c = "CASHFLOW_L1" -> cf1
          [] OTHER             -> fill]

HRow(id, l1, l2, cols) ==
    [pk |-> <<id>>,
     m  |-> [c \in Range(cols) |->
                IF c = cols[1] THEN l1 ELSE IF c = cols[2] THEN l2 ELSE Null],
     upd |-> NoAudit, crt |-> NoAudit]

TRow(pk, m) == [pk |-> pk, m |-> m, upd |-> NoAudit, crt |-> NoAudit]

\* the metric hierarchy: the all-blank path, a, a > b
MetricHierarchy0 ==
    << HRow(1, Null, Null, METRIC_COLUMNS),
       HRow(2, A, Null, METRIC_COLUMNS),
       HRow(3, A, B, METRIC_COLUMNS) >>

CashflowHierarchy0 == << HRow(1, C, Null, CASHFLOW_COLUMNS) >>

\* mapping tables: one clean, one with a NULL key, stored blanks and two
\* rows of one key, one with the text 'NaN' stored in a level and with a
\* level and a cashflow value that the hierarchies do not lead to
Mapping0 ==
    << << TRow(<<7, 1>>, MRow(A, Null, Null, Null, Null)),
          TRow(<<8, 1>>, MRow(Null, Null, Null, Null, Null)) >>,
       << TRow(<<NaN, 1>>, MRow(A, Null, Null, Null, Null)),
          TRow(<<7, 1>>, MRow(SpA, Sp, <<>>, <<>>, <<>>)),
          TRow(<<7, 1>>, MRow(A, B, Null, Null, Null)) >>,
       << TRow(<<8, 1>>, MRow(<<"N", "a", "N">>, Null, Null, Null, Null)),
          TRow(<<9, 1>>, MRow(B, Null, Null, C, Null)) >> >>

\* uploaded mapping rows as pd.read_csv(dtype=str) returns them
CsvRow(pk1, m) == [pk |-> <<pk1, <<"1">>>>, m |-> m]

CsvRows ==
    { CsvRow(<<"7">>, MRow(A, B, Null, Null, Null)),
      CsvRow(<<" ", "7">>, MRow(A, Null, BS, C, Null)),
      CsvRow(<<"7", ".", "0">>, MRow(SpA, Sp, Null, Null, Null)),
      CsvRow(<<"9">>, MRow(A, B, Null, Null, Null)),
      CsvRow(<<"9">>, MRow(Null, Sp, Null, Null, Null)),
      CsvRow(<<"x">>, MRow(A, B, Null, Null, Null)),
      CsvRow(<<"8">>, MRow(B, Null, Null, Null, Null)),
      CsvRow(<<"8">>, MRow(<<"N", "a", "N">>, Null, Null, Null, Null)) }

\* adjustment tables: AMOUNT 5 and NULL; a NULL key and two rows of one key
ARow(id, period, amount) == TRow(<<id, period>>, [c \in Range(AMOUNT_COLS) |-> amount])

Adjustments0 ==
    << << ARow(7, 1, <<"5">>), ARow(8, 1, Null) >>,
       << ARow(NaN, 1, <<"5">>), ARow(7, 1, <<"5">>), ARow(7, 1, <<"6">>) >>,
       << ARow(8, 1, <<"5">>) >> >>

\* uploaded adjustment rows as pd.read_csv(dtype=str) returns them
AdjCsvRow(id, month, amount) == [pk |-> <<id>>, MONTH |-> month, AMOUNT |-> amount]

AdjCsvRows ==
    { AdjCsvRow(<<"7">>, <<"1">>, <<"5">>),
      AdjCsvRow(<<" ", "7">>, <<"1">>, <<"6">>),
      AdjCsvRow(<<"7">>, <<"2">>, <<"5", ".", "0">>),
      AdjCsvRow(<<"9">>, <<"1">>, <<"5">>),
      AdjCsvRow(<<"9">>, <<"1">>, <<>>),
      AdjCsvRow(<<"x">>, <<"1">>, <<"5">>),
      AdjCsvRow(<<"7">>, <<"1", "3">>, <<"5">>),
      AdjCsvRow(<<"8">>, Null, <<"5">>) }

\* amounts typed into the bulk-edit grid
GridAmounts == { 0, 5, 6 }

Batches(rows) == UNION { [1..n -> rows] : n \in 1..MaxBatch }

\* what the cascading select boxes of a rendered row can hold
UiValues ==
    { MRow(<<>>, <<>>, <<>>, <<>>, <<>>),
      MRow(A, <<>>, <<>>, <<>>, <<>>),
      MRow(A, B, BS, C, <<>>) }

\* csv_df: the uploaded rows as read, new_df: the rows handed to the diff
NoReq == [page |-> "none", table |-> "none", csv_df |-> <<>>, new_df |-> <<>>,
          cols |-> <<>>, upsert |-> FALSE, validated |-> FALSE]

\* result_row: what the MERGE statement returned (present = it carried counts)
NoRow == [present |-> FALSE, inserted |-> 0, updated |-> 0]

\* before: the target table as it was when the call started
NoCall == [fn |-> "none", before |-> <<>>, update_df |-> <<>>, inserts_df |-> <<>>,
           temp_table |-> FALSE,
           result_row |-> NoRow, inserts |-> 0, updates |-> 0]

NoStaging == [exists |-> FALSE, rows |-> <<>>]

NoResult == [success |-> FALSE, inserts |-> 0, updates |-> 0]

Init ==
    /\ \E k \in 1..Len(Mapping0) :
          tables = [MAPPING            |-> Mapping0[k],
                    ADJUSTMENTS        |-> Adjustments0[k],
                    METRIC_HIERARCHY   |-> MetricHierarchy0,
                    CASHFLOW_HIERARCHY |-> CashflowHierarchy0]
    /\ staging = NoStaging
    /\ pc = "idle"
    /\ req = NoReq
    /\ changes = <<>>
    /\ call = NoCall
    /\ issued = <<>>
    /\ result = NoResult
    /\ now = 0
    /\ cache = <<>>

----------------------------------------------------------------------------
(* utils/cascade_helper.py: the cascade tree.  A tree is the function from *)
(* the path of a node (the values leading to it, <<>> for the root) to the *)
(* node's options; the children of a node are the paths one value longer.  *)

\* utils/data_loader.py load_metric_hierarchy / load_cashflow_hierarchy:
\* SELECT *, the level columns through normalize
load_hierarchy(table, cols) ==
    [i \in 1..Len(table) |->
        [pk |-> table[i].pk,
         m  |-> [c \in Range(cols) |-> normalize(table[i].m[c])]]]

\* the code point of a character
ord(c) ==
    CASE c = " " -> 32  [] c = "B" -> 66  [] c = "I" -> 73  [] c = "S" -> 83
      [] c = "a" -> 97  [] c = "b" -> 98  [] c = "c" -> 99  [] c = "e" -> 101
      [] c = "l" -> 108 [] c = "n" -> 110 [] c = "u" -> 117 [] c = "|" -> 124

\* s < t on str
RECURSIVE str_lt(_, _)
str_lt(s, t) ==
    IF s = <<>> THEN t # <<>>
    ELSE IF t = <<>> THEN FALSE
    ELSE IF s[1] = t[1] THEN str_lt(Tail(s), Tail(t))
    ELSE ord(s[1]) < ord(t[1])

\* sorted(options)
RECURSIVE sorted(_)
sorted(options) ==
    IF options = {} THEN <<>>
    ELSE LET least == CHOOSE x \in options :
                         \A y \in options \ {x} : str_lt(x, y)
         IN  <<least>> \o sorted(options \ {least})

\* a variant that puts the blank option last
convert_blank_last(options) ==
    sorted({ opt \in options : opt # <<>> })
       \o (IF <<>> \in options THEN << <<>> >> ELSE <<>>)

\* convert_and_sort (lines 81-92, 136-146) on the options of one node
convert_and_sort(options) ==
    IF <<>> \in options
    THEN << <<>> >> \o sorted({ opt \in options \ { <<>> } : opt # <<>> })
    ELSE sorted({ opt \in options : opt # <<>> })

\* a variant of the row loop that leaves out blank values and all below them
RECURSIVE add_row_no_blank(_, _, _)
add_row_no_blank(nodes, values, level) ==
    IF level > Len(values) \/ values[level] = <<>> THEN nodes
    ELSE LET path  == SubSeq(values, 1, level - 1)
             child == SubSeq(values, 1, level)
             added == [p \in DOMAIN nodes \cup {child} |->
                          IF p = path THEN nodes[p] \cup {values[level]}
                          ELSE IF p \in DOMAIN nodes THEN nodes[p] ELSE {}]
         IN  add_row_no_blank(added, values, level + 1)

\* lines 61-78 for one row: at every level the value joins the options of
\* the current node and the child node is created if it is not there
RECURSIVE add_row(_, _, _)
add_row(nodes, values, level) ==
    IF level > Len(values) THEN nodes
    ELSE LET path  == SubSeq(values, 1, level - 1)
             child == SubSeq(values, 1, level)
             added == [p \in DOMAIN nodes \cup {child} |->
                          IF p = path THEN nodes[p] \cup {values[level]}
                          ELSE IF p \in DOMAIN nodes THEN nodes[p] ELSE {}]
         IN  add_row(added, values, level + 1)

\* build_metric_tree_from_df / build_cashflow_tree_from_df: the level
\* columns cleaned (fillna(''), str, strip), the rows added one by one from
\* the root, every node's options converted and sorted
build_tree_from_df(df, cols) ==
    LET clean(v) == IF isna(v) THEN <<>> ELSE strip(v)
        values(i) == [k \in 1..Len(cols) |-> clean(df[i].m[cols[k]])]
        nodes[i \in 0..Len(df)] ==
            IF i = 0 THEN [p \in { <<>> } |-> {}]
            ELSE add_row(nodes[i - 1], values(i), 1)
        tree == nodes[Len(df)]
    IN  [p \in DOMAIN tree |-> convert_and_sort(tree[p])]

\* get_options_from_tree: down the tree along the parent values (None and
\* NaN taken as ''), [] as soon as a parent has no node
get_options_from_tree(tree, parent_values) ==
    LET parent_key(v) == IF isna(v) THEN <<>> ELSE strip(v)
        keys == [k \in 1..Len(parent_values) |-> parent_key(parent_values[k])]
    IN  IF \A k \in 1..Len(keys) : SubSeq(keys, 1, k) \in DOMAIN tree
        THEN tree[keys]
        ELSE <<>>

----------------------------------------------------------------------------
(* modules/COA.py: the two ways a mapping request is built *)

\* TAB 2, one script run over an uploaded file: duplicate check on the raw
\* keys, normalization, hierarchy validation, diff against actual_df
CoaCsvUpload ==
    /\ pc = "idle"
    /\ \E csv_df \in Batches(CsvRows) :
          LET csv_df_normalized == normalize_csv_data(csv_df)
              hierarchy_errors ==
                  validate_csv_hierarchy(csv_df_normalized,
                                         tables.METRIC_HIERARCHY,
                                         tables.CASHFLOW_HIERARCHY)
              actual_df == load_actual_data(tables.MAPPING)
              found == generate_changes_from_csv(csv_df_normalized, actual_df, MAPPING_COLS)
          IN  IF has_duplicates(csv_df)
              THEN /\ pc' = "rejected"
                   /\ req' = [NoReq EXCEPT !.page = "coa_csv", !.table = "MAPPING",
                                           !.csv_df = csv_df,
                                           !.new_df = csv_df_normalized,
                                           !.cols = MAPPING_COLS]
                   /\ changes' = <<>>
              ELSE IF hierarchy_errors # {}
              THEN /\ pc' = "invalid"
                   /\ req' = [NoReq EXCEPT !.page = "coa_csv", !.table = "MAPPING",
                                           !.csv_df = csv_df,
                                           !.new_df = csv_df_normalized,
                                           !.cols = MAPPING_COLS]
                   /\ changes' = <<>>
              ELSE /\ pc' = IF found = <<>> THEN "no_changes" ELSE "preview"
                   /\ req' = [NoReq EXCEPT !.page = "coa_csv", !.table = "MAPPING",
                                           !.csv_df = csv_df,
                                           !.new_df = csv_df_normalized,
                                           !.cols = MAPPING_COLS,
                                           !.validated = TRUE]
                   /\ changes' = found
    /\ UNCHANGED <<tables, staging, call, issued, result>>
    /\ UNCHANGED <<now, cache>>

\* the edit maps save_edit can have built: rendered baseline rows, each
\* with the values of its select boxes
EditMaps(actual_df) ==
    { e \in Batches({ [pk |-> actual_df[i].pk, m |-> v] :
                        i \in 1..Len(actual_df), v \in UiValues }) :
        ~has_duplicates(e) }

\* TAB 1, "Preview Changes": the diff of st.session_state.edited_rows
CoaUiPreview ==
    /\ pc = "idle"
    /\ LET actual_df == load_actual_data(tables.MAPPING)
       IN  \E edited_rows \in EditMaps(actual_df) :
              LET found == generate_changes_from_edited_rows(edited_rows, actual_df,
                                                             MAPPING_COLS)
              IN  /\ pc' = IF found = <<>> THEN "no_changes" ELSE "preview"
                  /\ req' = [NoReq EXCEPT !.page = "coa_ui", !.table = "MAPPING",
                                          !.new_df = edited_rows,
                                          !.cols = MAPPING_COLS]
                  /\ changes' = found
    /\ UNCHANGED <<tables, staging, call, issued, result>>
    /\ UNCHANGED <<now, cache>>

\* COA.py 228-338, the select boxes of one rendered row when the user
\* touches none of them: each shows the current value when that is among
\* its options, the first option otherwise, None without options; the
\* values are saved through normalize
rendered_values(current_values, metric_tree, cashflow_tree) ==
    LET shown(options, current) ==
            IF options = <<>> THEN Null
            ELSE IF \E n \in 1..Len(options) : options[n] = current THEN current
            ELSE options[1]
        metric[k \in 0..Len(METRIC_COLUMNS)] ==
            IF k = 0 THEN <<>>
            ELSE Append(metric[k - 1],
                        shown(get_options_from_tree(metric_tree, metric[k - 1]),
                              current_values[METRIC_COLUMNS[k]]))
        IS_BS_value == shown(<< <<>>, <<"I", "S">>, BS >>, current_values["IS_BS"])
        cashflow[k \in 0..Len(CASHFLOW_COLUMNS)] ==
            IF k = 0 THEN <<>>
            ELSE Append(cashflow[k - 1],
                        shown(IF IS_BS_value = BS
                              THEN get_options_from_tree(cashflow_tree, cashflow[k - 1])
                              ELSE <<>>,
                              current_values[CASHFLOW_COLUMNS[k]]))
        debt_value ==
            IF metric[1][1] \in LiabilityL1 /\ Is_DM
            THEN IF current_values["DEBT_MAPPING"] \in DEBT_MAPPING_OPTIONS
                 THEN current_values["DEBT_MAPPING"]
                 ELSE CHOOSE o \in DEBT_MAPPING_OPTIONS : TRUE
            ELSE Null
    IN  [c \in Cols |->
            normalize(
               IF c = "IS_BS" THEN IS_BS_value
               ELSE IF c = "DEBT_MAPPING" THEN debt_value
               ELSE IF \E k \in 1..Len(METRIC_COLUMNS) : METRIC_COLUMNS[k] = c
               THEN metric[Len(METRIC_COLUMNS)][CHOOSE k \in 1..Len(METRIC_COLUMNS) :
                                                   METRIC_COLUMNS[k] = c]
               ELSE cashflow[Len(CASHFLOW_COLUMNS)][CHOOSE k \in 1..Len(CASHFLOW_COLUMNS) :
                                                       CASHFLOW_COLUMNS[k] = c])]

\* TAB 1 opened and "Preview Changes" pressed with no select box touched:
\* every row of the table is rendered (they fit on one page) and saved by
\* save_edit under its key, then the edit map is diffed
CoaView ==
    /\ pc = "idle"
    /\ LET actual_df == load_actual_data(tables.MAPPING)
           metric_tree ==
               build_tree_from_df(load_hierarchy(tables.METRIC_HIERARCHY, METRIC_COLUMNS),
                                  METRIC_COLUMNS)
           cashflow_tree ==
               build_tree_from_df(load_hierarchy(tables.CASHFLOW_HIERARCHY, CASHFLOW_COLUMNS),
                                  CASHFLOW_COLUMNS)
           saved == [i \in 1..Len(actual_df) |->
                        [pk |-> actual_df[i].pk,
                         m  |-> rendered_values(actual_df[i].m, metric_tree, cashflow_tree)]]
           \* a dict: a later row of the same key replaces the earlier one
           edited_rows ==
               drop_duplicates(
                  [i \in 1..Len(saved) |->
                      saved[CHOOSE j \in i..Len(saved) :
                               /\ saved[j].pk = saved[i].pk
                               /\ \A h \in (j + 1)..Len(saved) : saved[h].pk # saved[i].pk]])
           found == generate_changes_from_edited_rows(edited_rows, actual_df, MAPPING_COLS)
       IN  /\ pc' = IF found = <<>> THEN "no_changes" ELSE "preview"
           /\ req' = [NoReq EXCEPT !.page = "coa_view", !.table = "MAPPING",
                                   !.new_df = edited_rows, !.cols = MAPPING_COLS]
           /\ changes' = found
    /\ UNCHANGED <<tables, staging, call, issued, result>>
    /\ UNCHANGED <<now, cache>>

\* components/preview.py render_preview_and_confirm: "Confirm & Update"
Confirm ==
    /\ pc = "preview"
    /\ pc' = "mo_entry"
    /\ UNCHANGED <<tables, staging, req, changes, call, issued, result>>
    /\ UNCHANGED <<now, cache>>

----------------------------------------------------------------------------
(* components/preview.py execute_merge_operation, one store call per step  *)

\* session.sql("SELECT CURRENT_TIMESTAMP()")
current_timestamp == "now"

Issue(op, ok) == issued' = Append(issued, [op |-> op, ok |-> ok])

Return(success, inserts, updates) ==
    /\ result' = [success |-> success, inserts |-> inserts, updates |-> updates]
    /\ pc' = "returned"

\* update_df: keys and mapping columns of every change record's full_row
build_update_df(chs, mapping_cols) ==
    [i \in 1..Len(chs) |->
        [pk |-> chs[i].primary_keys,
         m  |-> [c \in Range(mapping_cols) |-> chs[i].full_row.m[c]]]]

\* lines 219-245: session, current user (outside the try), empty check
MoEntry ==
    /\ pc = "mo_entry"
    /\ \/ /\ Issue("current_user", TRUE)
          /\ IF changes = <<>>
             THEN /\ Return(TRUE, 0, 0)
                  /\ call' = [NoCall EXCEPT !.fn = "execute_merge_operation",
                                            !.before = tables[req.table]]
             ELSE /\ call' = [NoCall EXCEPT !.fn = "execute_merge_operation",
                                            !.before = tables[req.table],
                                            !.update_df = build_update_df(changes, req.cols)]
                  /\ pc' = "mo_write"
                  /\ UNCHANGED result
       \/ /\ Issue("current_user", FALSE)
          /\ pc' = "raised"
          /\ call' = [NoCall EXCEPT !.fn = "execute_merge_operation"]
          /\ UNCHANGED result
    /\ UNCHANGED <<tables, staging, req, changes>>
    /\ UNCHANGED <<now, cache>>

\* lines 248-256: temp_table named, write_pandas(auto_create_table, overwrite)
MoWrite ==
    /\ pc = "mo_write"
    /\ call' = [call EXCEPT !.temp_table = TRUE]
    /\ \/ /\ Issue("write", TRUE)
          /\ staging' = [exists |-> TRUE, rows |-> call.update_df]
          /\ pc' = "mo_timestamp"
       \/ /\ Issue("write", FALSE)
          /\ \E created \in BOOLEAN : staging' = [exists |-> created, rows |-> <<>>]
          /\ pc' = "mo_except"
    /\ UNCHANGED <<tables, req, changes, result>>
    /\ UNCHANGED <<now, cache>>

\* line 270
MoTimestamp ==
    /\ pc = "mo_timestamp"
    /\ \/ /\ Issue("timestamp", TRUE)
          /\ pc' = "mo_merge"
       \/ /\ Issue("timestamp", FALSE)
          /\ pc' = "mo_except"
    /\ UNCHANGED <<tables, staging, req, changes, call, result>>
    /\ UNCHANGED <<now, cache>>

\* lines 275-313: the MERGE, its result row, the fallback count
MoMerge ==
    /\ pc = "mo_merge"
    /\ \/ /\ deterministic_merge(tables[req.table], staging.rows)
          /\ Issue("merge", TRUE)
          /\ LET r == merge_into(tables[req.table], staging.rows, Range(req.cols),
                                 req.upsert, current_user, current_timestamp)
             IN  /\ tables' = [tables EXCEPT ![req.table] = r.table]
                 /\ \E present \in BOOLEAN :
                       LET inserts == IF present THEN r.inserted ELSE 0
                           updates == IF present THEN r.updated ELSE 0
                       IN  call' = [call EXCEPT
                                      !.result_row = [present  |-> present,
                                                      inserted |-> r.inserted,
                                                      updated  |-> r.updated],
                                      !.inserts = inserts,
                                      !.updates = IF inserts = 0 /\ updates = 0
                                                  THEN Len(changes) ELSE updates]
          /\ pc' = "mo_drop"
       \/ /\ Issue("merge", FALSE)
          /\ pc' = "mo_except"
          /\ UNCHANGED <<tables, call>>
    /\ UNCHANGED <<staging, req, changes, result>>
    /\ UNCHANGED <<now, cache>>

\* lines 316-328: DROP TABLE IF EXISTS, then the success return
MoDrop ==
    /\ pc = "mo_drop"
    /\ \/ /\ Issue("drop", TRUE)
          /\ staging' = NoStaging
          /\ call' = [call EXCEPT !.temp_table = FALSE]
          /\ Return(TRUE, call.inserts, call.updates)
       \/ /\ Issue("drop", FALSE)
          /\ pc' = "mo_except"
          /\ UNCHANGED <<staging, call, result>>
    /\ UNCHANGED <<tables, req, changes>>
    /\ UNCHANGED <<now, cache>>

\* a handler that returns without dropping the staging table
MoExceptKeepsStaging ==
    /\ pc = "mo_except"
    /\ Return(FALSE, 0, 0)
    /\ UNCHANGED <<tables, staging, req, changes, call, issued>>
    /\ UNCHANGED <<now, cache>>

\* a handler that starts the staging write again
MoExceptRetries ==
    /\ pc = "mo_except"
    /\ IF Len(issued) < 8
       THEN pc' = "mo_write" /\ UNCHANGED result
       ELSE Return(FALSE, 0, 0)
    /\ UNCHANGED <<tables, staging, req, changes, call, issued>>
    /\ UNCHANGED <<now, cache>>

\* lines 330-338: best-effort DROP, then the failure return
MoExcept ==
    /\ pc = "mo_except"
    /\ IF call.temp_table
       THEN \/ /\ Issue("drop", TRUE)
               /\ staging' = NoStaging
            \/ /\ Issue("drop", FALSE)
               /\ UNCHANGED staging
       ELSE UNCHANGED <<issued, staging>>
    /\ Return(FALSE, 0, 0)
    /\ UNCHANGED <<tables, req, changes, call>>
    /\ UNCHANGED <<now, cache>>

----------------------------------------------------------------------------
(* modules/Zeus.py and modules/Adjustments.py: adjustment requests *)

AdjReq(page, new_df, upsert, validated) ==
    [NoReq EXCEPT !.page = page, !.table = "ADJUSTMENTS", !.new_df = new_df,
                  !.cols = AMOUNT_COLS, !.upsert = upsert, !.validated = validated]

\* Zeus bulk upload, "Apply Bulk Upload": normalization, PERIOD, duplicate
\* check, validation, diff against adj_df, then the upsert MERGE
ZeusCsvApply ==
    /\ pc = "idle"
    /\ \E csv_df \in Batches(AdjCsvRows) :
          LET csv_df_normalized == normalize_adjustment_csv(csv_df)
              valid_csv_df == prepare_upsert_dataframe(csv_df_normalized)
              adj_df == zeus_load_adjustments_data(tables.ADJUSTMENTS)
              found == generate_changes_from_csv(valid_csv_df, adj_df, AMOUNT_COLS)
          IN  IF period_fails(csv_df_normalized)
              THEN /\ pc' = "error"
                   /\ req' = AdjReq("zeus_csv", <<>>, TRUE, FALSE)
                   /\ changes' = <<>>
              ELSE IF adjustment_duplicates(csv_df_normalized)
              THEN /\ pc' = "rejected"
                   /\ req' = AdjReq("zeus_csv", valid_csv_df, TRUE, FALSE)
                   /\ changes' = <<>>
              ELSE IF validate_adjustment_csv(csv_df_normalized) # {}
              THEN /\ pc' = "invalid"
                   /\ req' = AdjReq("zeus_csv", valid_csv_df, TRUE, FALSE)
                   /\ changes' = <<>>
              ELSE /\ pc' = IF found = <<>> THEN "no_changes" ELSE "mo_entry"
                   /\ req' = AdjReq("zeus_csv", valid_csv_df, TRUE, TRUE)
                   /\ changes' = found
    /\ UNCHANGED <<tables, staging, call, issued, result>>
    /\ UNCHANGED <<now, cache>>

\* Adjustments bulk upload, "Apply Bulk Upload": normalization, duplicate
\* check, validation, prepare_upsert_dataframe, then the upsert MERGE
AdjCsvApply ==
    /\ pc = "idle"
    /\ \E csv_df \in Batches(AdjCsvRows) :
          LET csv_df_normalized == normalize_adjustment_csv(csv_df)
              keyed == prepare_upsert_dataframe(csv_df_normalized)
          IN  IF adjustment_duplicates(csv_df_normalized)
              THEN /\ pc' = "rejected"
                   /\ req' = AdjReq("adj_csv", keyed, TRUE, FALSE)
              ELSE IF validate_adjustment_csv(csv_df_normalized) # {}
              THEN /\ pc' = "invalid"
                   /\ req' = AdjReq("adj_csv", keyed, TRUE, FALSE)
              ELSE /\ pc' = "au_entry"
                   /\ req' = AdjReq("adj_csv", keyed, TRUE, TRUE)
    /\ UNCHANGED <<tables, staging, changes, call, issued, result>>
    /\ UNCHANGED <<now, cache>>

\* pending_amount_changes: loaded rows whose grid amount moved by more
\* than 0.01, one entry per row key
PendingAmountChanges(adj_df) ==
    { e \in Batches({ [pk |-> adj_df[i].pk,
                       m  |-> [c \in Range(AMOUNT_COLS) |-> str_of(a)]] :
                        i \in 1..Len(adj_df), a \in GridAmounts }) :
        /\ ~has_duplicates(e)
        /\ \A n \in 1..Len(e) :
              \E i \in 1..Len(adj_df) :
                 adj_df[i].pk = e[n].pk /\ adj_df[i].m # e[n].m }

\* Adjustments bulk edit, "Save All Changes": update-only MERGE
AdjBulkSave ==
    /\ pc = "idle"
    /\ \E pending \in PendingAmountChanges(load_adjustments_data(tables.ADJUSTMENTS)) :
          req' = AdjReq("adj_bulk", pending, FALSE, FALSE)
    /\ pc' = "au_entry"
    /\ UNCHANGED <<tables, staging, changes, call, issued, result>>
    /\ UNCHANGED <<now, cache>>

----------------------------------------------------------------------------
(* components/adjustments_helper.py execute_adjustment_upsert_merge *)

\* lines 290-293
AuEntry ==
    /\ pc = "au_entry"
    /\ call' = [NoCall EXCEPT !.fn = "execute_adjustment_upsert_merge",
                              !.before = tables[req.table],
                              !.update_df = req.new_df]
    /\ IF Len(req.new_df) = 0
       THEN Return(TRUE, 0, 0)
       ELSE pc' = "au_write" /\ UNCHANGED result
    /\ UNCHANGED <<tables, staging, req, changes, issued>>
    /\ UNCHANGED <<now, cache>>

\* lines 297-305
AuWrite ==
    /\ pc = "au_write"
    /\ call' = [call EXCEPT !.temp_table = TRUE]
    /\ \/ /\ Issue("write", TRUE)
          /\ staging' = [exists |-> TRUE, rows |-> call.update_df]
          /\ pc' = "au_timestamp"
       \/ /\ Issue("write", FALSE)
          /\ \E created \in BOOLEAN : staging' = [exists |-> created, rows |-> <<>>]
          /\ pc' = "au_except"
    /\ UNCHANGED <<tables, req, changes, result>>
    /\ UNCHANGED <<now, cache>>

\* line 316
AuTimestamp ==
    /\ pc = "au_timestamp"
    /\ \/ /\ Issue("timestamp", TRUE)
          /\ pc' = "au_merge"
       \/ /\ Issue("timestamp", FALSE)
          /\ pc' = "au_except"
    /\ UNCHANGED <<tables, staging, req, changes, call, result>>
    /\ UNCHANGED <<now, cache>>

\* lines 326-356: the MERGE and its result row; no fallback count
AuMerge ==
    /\ pc = "au_merge"
    /\ \/ /\ deterministic_merge(tables[req.table], staging.rows)
          /\ Issue("merge", TRUE)
          /\ LET r == merge_into(tables[req.table], staging.rows, Range(req.cols),
                                 req.upsert, current_user, current_timestamp)
             IN  /\ tables' = [tables EXCEPT ![req.table] = r.table]
                 /\ \E present \in BOOLEAN :
                       call' = [call EXCEPT
                                  !.result_row = [present  |-> present,
                                                  inserted |-> r.inserted,
                                                  updated  |-> r.updated],
                                  !.inserts = IF present THEN r.inserted ELSE 0,
                                  !.updates = IF present THEN r.updated ELSE 0]
          /\ pc' = "au_drop"
       \/ /\ Issue("merge", FALSE)
          /\ pc' = "au_except"
          /\ UNCHANGED <<tables, call>>
    /\ UNCHANGED <<staging, req, changes, result>>
    /\ UNCHANGED <<now, cache>>

\* lines 359-362
AuDrop ==
    /\ pc = "au_drop"
    /\ \/ /\ Issue("drop", TRUE)
          /\ staging' = NoStaging
          /\ call' = [call EXCEPT !.temp_table = FALSE]
          /\ Return(TRUE, call.inserts, call.updates)
       \/ /\ Issue("drop", FALSE)
          /\ pc' = "au_except"
          /\ UNCHANGED <<staging, call, result>>
    /\ UNCHANGED <<tables, req, changes>>
    /\ UNCHANGED <<now, cache>>

\* lines 364-372
AuExcept ==
    /\ pc = "au_except"
    /\ IF call.temp_table
       THEN \/ /\ Issue("drop", TRUE)
               /\ staging' = NoStaging
            \/ /\ Issue("drop", FALSE)
               /\ UNCHANGED staging
       ELSE UNCHANGED <<issued, staging>>
    /\ Return(FALSE, 0, 0)
    /\ UNCHANGED <<tables, req, changes, call>>
    /\ UNCHANGED <<now, cache>>

----------------------------------------------------------------------------
(* modules/COA.py TAB 3 and components/hierarchy_editor.py                 *)
(* save_hierarchy_changes                                                   *)

E == <<"e">>

\* the grid of the hierarchy editor: the loaded rows, any of them with a
\* retyped METRIC_L2, and at most one added row
EditedGrids(original_df) ==
    LET new_id == Len(original_df) + 1
        added == { <<>>,
                   << [pk |-> <<new_id>>, m |-> HRow(new_id, A, C, METRIC_COLUMNS).m] >>,
                   << [pk |-> <<new_id>>, m |-> HRow(new_id, Null, Sp, METRIC_COLUMNS).m] >> }
    IN  { [i \in 1..Len(original_df) |->
              [pk |-> original_df[i].pk,
               m  |-> IF i \in touched
                      THEN [original_df[i].m EXCEPT !["METRIC_L2"] = E]
                      ELSE original_df[i].m]] \o extra :
            touched \in SUBSET (1..Len(original_df)), extra \in added }

\* str(v).strip() if pd.notna(v) else ""
cell_str(v) == IF isna(v) THEN <<>> ELSE strip(v)

\* lines 335-336: the edited rows whose id is not a loaded id
find_inserts(edited_df, original_df) ==
    LET existing_ids == { original_df[i].pk : i \in 1..Len(original_df) }
        is_new(r) == r.pk \notin existing_ids
    IN  SelectSeq(edited_df, is_new)

\* lines 342-380: the edited rows of a loaded id with a cell that differs
find_updates(edited_df, original_df) ==
    LET row_changed(r) ==
            \E i \in 1..Len(original_df) :
               /\ original_df[i].pk = r.pk
               /\ \E c \in DOMAIN r.m : cell_str(r.m[c]) # cell_str(original_df[i].m[c])
    IN  SelectSeq(edited_df, row_changed)

\* lines 388-400: added rows with at least one filled cell
non_empty_inserts(inserts_df) ==
    LET has_data(r) == \E c \in DOMAIN r.m : cell_str(r.m[c]) # <<>>
    IN  SelectSeq(inserts_df, has_data)

\* "Save Changes" on the metric hierarchy tab
HierSave ==
    /\ pc = "idle"
    /\ LET original_df == [i \in 1..Len(tables.METRIC_HIERARCHY) |->
                              [pk |-> tables.METRIC_HIERARCHY[i].pk,
                               m  |-> tables.METRIC_HIERARCHY[i].m]]
       IN  \E edited_df \in EditedGrids(original_df) :
              req' = [NoReq EXCEPT !.page = "hierarchy", !.table = "METRIC_HIERARCHY",
                                   !.new_df = edited_df, !.cols = METRIC_COLUMNS]
    /\ pc' = "hs_entry"
    /\ UNCHANGED <<tables, staging, changes, call, issued, result>>
    /\ UNCHANGED <<now, cache>>

\* lines 322-380: current user (outside the try), inserts_df, updates_df
HsEntry ==
    /\ pc = "hs_entry"
    /\ \/ /\ Issue("current_user", TRUE)
          /\ LET original_df == [i \in 1..Len(tables[req.table]) |->
                                    [pk |-> tables[req.table][i].pk,
                                     m  |-> tables[req.table][i].m]]
                 inserts_df == non_empty_inserts(find_inserts(req.new_df, original_df))
                 updates_df == find_updates(req.new_df, original_df)
             IN  /\ call' = [NoCall EXCEPT !.fn = "save_hierarchy_changes",
                                           !.before = tables[req.table],
                                           !.inserts_df = inserts_df,
                                           !.update_df = updates_df]
                 /\ IF inserts_df # <<>>
                    THEN pc' = "hs_ins_timestamp" /\ UNCHANGED result
                    ELSE IF updates_df # <<>>
                    THEN pc' = "hs_write" /\ UNCHANGED result
                    ELSE Return(TRUE, 0, 0)
       \/ /\ Issue("current_user", FALSE)
          /\ pc' = "raised"
          /\ call' = [NoCall EXCEPT !.fn = "save_hierarchy_changes"]
          /\ UNCHANGED result
    /\ UNCHANGED <<tables, staging, req, changes>>
    /\ UNCHANGED <<now, cache>>

\* line 401
HsInsTimestamp ==
    /\ pc = "hs_ins_timestamp"
    /\ \/ /\ Issue("timestamp", TRUE)
          /\ pc' = "hs_insert"
       \/ /\ Issue("timestamp", FALSE)
          /\ pc' = "hs_except"
    /\ UNCHANGED <<tables, staging, req, changes, call, result>>
    /\ UNCHANGED <<now, cache>>

\* lines 402-410: write_pandas(inserts_df, table_name, overwrite=False)
HsInsert ==
    /\ pc = "hs_insert"
    /\ \/ /\ Issue("write_target", TRUE)
          /\ tables' = [tables EXCEPT ![req.table] =
                           @ \o [j \in 1..Len(call.inserts_df) |->
                                    [pk  |-> call.inserts_df[j].pk,
                                     m   |-> call.inserts_df[j].m,
                                     upd |-> [by |-> current_user, at |-> current_timestamp],
                                     crt |-> NoAudit]]]
          /\ call' = [call EXCEPT !.inserts = Len(call.inserts_df)]
          /\ IF call.update_df = <<>>
             THEN Return(TRUE, Len(call.inserts_df), 0)
             ELSE pc' = "hs_write" /\ UNCHANGED result
       \/ /\ Issue("write_target", FALSE)
          /\ pc' = "hs_except"
          /\ UNCHANGED <<tables, call, result>>
    /\ UNCHANGED <<staging, req, changes>>
    /\ UNCHANGED <<now, cache>>

\* lines 418-425
HsWrite ==
    /\ pc = "hs_write"
    /\ call' = [call EXCEPT !.temp_table = TRUE]
    /\ \/ /\ Issue("write", TRUE)
          /\ staging' = [exists |-> TRUE, rows |-> call.update_df]
          /\ pc' = "hs_merge"
       \/ /\ Issue("write", FALSE)
          /\ \E created \in BOOLEAN : staging' = [exists |-> created, rows |-> <<>>]
          /\ pc' = "hs_except"
    /\ UNCHANGED <<tables, req, changes, result>>
    /\ UNCHANGED <<now, cache>>

\* lines 428-445
HsMerge ==
    /\ pc = "hs_merge"
    /\ \/ /\ deterministic_merge(tables[req.table], staging.rows)
          /\ Issue("merge", TRUE)
          /\ LET r == merge_into(tables[req.table], staging.rows, Range(req.cols),
                                 FALSE, current_user, current_timestamp)
             IN  tables' = [tables EXCEPT ![req.table] = r.table]
          /\ pc' = "hs_drop"
       \/ /\ Issue("merge", FALSE)
          /\ pc' = "hs_except"
          /\ UNCHANGED tables
    /\ UNCHANGED <<staging, req, changes, call, result>>
    /\ UNCHANGED <<now, cache>>

\* lines 448-463
HsDrop ==
    /\ pc = "hs_drop"
    /\ \/ /\ Issue("drop", TRUE)
          /\ staging' = NoStaging
          /\ call' = [call EXCEPT !.temp_table = FALSE,
                                  !.updates = Len(call.update_df)]
          /\ Return(TRUE, call.inserts, Len(call.update_df))
       \/ /\ Issue("drop", FALSE)
          /\ pc' = "hs_except"
          /\ UNCHANGED <<staging, call, result>>
    /\ UNCHANGED <<tables, req, changes>>
    /\ UNCHANGED <<now, cache>>

\* lines 465-473
HsExcept ==
    /\ pc = "hs_except"
    /\ IF call.temp_table
       THEN \/ /\ Issue("drop", TRUE)
               /\ staging' = NoStaging
            \/ /\ Issue("drop", FALSE)
               /\ UNCHANGED staging
       ELSE UNCHANGED <<issued, staging>>
    /\ Return(FALSE, 0, 0)
    /\ UNCHANGED <<tables, req, changes, call>>
    /\ UNCHANGED <<now, cache>>

Next ==
    \/ CoaCsvUpload
    \/ CoaUiPreview
    \/ CoaView
    \/ Confirm
    \/ MoEntry
    \/ MoWrite
    \/ MoTimestamp
    \/ MoMerge
    \/ MoDrop
    \/ MoExcept
    \/ ZeusCsvApply
    \/ AdjCsvApply
    \/ AdjBulkSave
    \/ AuEntry
    \/ AuWrite
    \/ AuTimestamp
    \/ AuMerge
    \/ AuDrop
    \/ AuExcept
    \/ HierSave
    \/ HsEntry
    \/ HsInsTimestamp
    \/ HsInsert
    \/ HsWrite
    \/ HsMerge
    \/ HsDrop
    \/ HsExcept

Spec == Init /\ [][Next]_vars

----------------------------------------------------------------------------
(* Properties *)

\* the baseline a page loads for its diff
reload(table) ==
    IF table = "MAPPING" THEN load_actual_data(tables.MAPPING)
    ELSE zeus_load_adjustments_data(tables.ADJUSTMENTS)

DiffPages == { "coa_csv", "coa_ui", "zeus_csv" }

MergeIssued == \E i \in 1..Len(issued) : issued[i].op = "merge"

\* C1: idempotence of diff-then-merge.  Once execute_merge_operation has
\* returned success for the change records of a duplicate-free candidate
\* set, diffing the same candidates against the reloaded baseline returns
\* no change record, in upsert and in update-only mode.
C1_DiffThenMergeIdempotent ==
    ( /\ pc = "returned"
      /\ call.fn = "execute_merge_operation"
      /\ result.success
      /\ ~has_duplicates(req.new_df) )
    => generate_changes_from_csv(req.new_df, reload(req.table), req.cols) = <<>>

\* C2: no partial application.  Whenever a save/merge call returns failure
\* the target table is exactly what it was when the call started.
C2_NoPartialApplication ==
    (pc = "returned" /\ ~result.success) => tables[req.table] = call.before

\* C3: duplicate identity is rejected.  An uploaded batch with two rows of
\* one composite key, keys normalized to integers, is rejected: no diff is
\* kept and no store statement is issued.
C3_DuplicateRejected ==
    (req.page \in { "coa_csv", "zeus_csv", "adj_csv" } /\ has_duplicates(req.new_df))
    => (pc = "rejected" /\ changes = <<>> /\ issued = <<>>)

\* C4: validation precedes every write.  A MERGE against the mapping or the
\* adjustments table is issued only for a request whose candidate rows all
\* went through the validator and produced no error.
C4_ValidationPrecedesWrite ==
    (MergeIssued /\ req.table \in { "MAPPING", "ADJUSTMENTS" }) => req.validated

\* C5: no baseline match implies insert-eligible.  Every candidate row whose
\* composite key has no baseline row gets a change record with an entry in
\* changed_fields for every tracked field, whatever its values.
C5_UnmatchedFullDiff ==
    (req.page \in DiffPages /\ pc \in { "preview", "no_changes" })
    => \A i \in 1..Len(req.new_df) :
          first_of_key(reload(req.table), req.new_df[i].pk) = 0
          => \E n \in 1..Len(changes) :
                /\ changes[n].full_row = req.new_df[i]
                /\ DOMAIN changes[n].changed_fields = Range(req.cols)

----------------------------------------------------------------------------
(* The diff engine on its own: baseline and candidates drawn from bounded  *)
(* sets, generate_changes_from_csv applied to them                          *)

\* raw cell values: NaN / None, '', blanks, text with and without blanks
CellValues == { Null, <<>>, Sp, <<" ", " ">>, A, SpA, B }

DiffBaselines ==
    { <<>> }
    \cup { << TRow(<<7, 1>>, MRow(v, B, Null, Null, Null)) >> : v \in CellValues }
    \cup { << TRow(<<7, 1>>, MRow(v, Null, Null, Null, Null)),
              TRow(<<7, 1>>, MRow(A, B, Null, Null, Null)) >> : v \in { Null, Sp, B } }

DiffCandidates ==
    { [pk |-> <<7, 1>>, m |-> MRow(v, w, Null, Null, Null)] :
        v \in CellValues, w \in { Null, B } }
    \cup { [pk |-> <<9, 1>>, m |-> MRow(v, Null, Null, Null, Null)] : v \in { Null, A } }

DiffInit ==
    /\ \E original_df \in DiffBaselines :
          tables = [MAPPING            |-> original_df,
                    ADJUSTMENTS        |-> <<>>,
                    METRIC_HIERARCHY   |-> MetricHierarchy0,
                    CASHFLOW_HIERARCHY |-> CashflowHierarchy0]
    /\ \E new_df \in Batches(DiffCandidates) :
          req = [NoReq EXCEPT !.page = "diff", !.table = "MAPPING",
                              !.new_df = new_df, !.cols = MAPPING_COLS]
    /\ staging = NoStaging
    /\ pc = "idle"
    /\ changes = <<>>
    /\ call = NoCall
    /\ issued = <<>>
    /\ result = NoResult
    /\ now = 0
    /\ cache = <<>>

DiffApply ==
    /\ pc = "idle"
    /\ changes' = generate_changes_from_csv(req.new_df, tables.MAPPING, req.cols)
    /\ pc' = "diffed"
    /\ UNCHANGED <<tables, staging, req, call, issued, result>>
    /\ UNCHANGED <<now, cache>>

DiffNext == DiffApply

DiffSpec == DiffInit /\ [][DiffNext]_vars

\* a value that is None, NaN, '' or only blanks
IsBlank(v) == isna(v) \/ \A i \in 1..Len(v) : v[i] = " "

\* the normalized value of a cell
Normalized(v) == IF isna(v) THEN <<>> ELSE strip(v)

\* the candidate row at position i was given a field diff for column c
FieldDiffed(i, c) ==
    \E n \in 1..Len(changes) :
       changes[n].full_row = req.new_df[i] /\ c \in DOMAIN changes[n].changed_fields

\* C6: diff symmetry.  For a candidate row whose key is in the baseline and
\* any tracked field: blank against blank gives no field diff, and a field
\* diff is given exactly when the two normalized values differ.
C6_DiffSymmetry ==
    pc = "diffed"
    => \A i \in 1..Len(req.new_df) : \A c \in Range(req.cols) :
          LET j == first_of_key(tables.MAPPING, req.new_df[i].pk)
          IN  j # 0 =>
                 LET old == tables.MAPPING[j].m[c]
                     new == req.new_df[i].m[c]
                 IN  /\ (IsBlank(old) /\ IsBlank(new)) => ~FieldDiffed(i, c)
                     /\ FieldDiffed(i, c) <=> Normalized(old) # Normalized(new)

\* C6 witness: a matched row with a blank-only candidate value against a
\* NULL baseline value and no diff, beside a field that did change
C6_Witness ==
    /\ pc = "diffed"
    /\ \E i \in 1..Len(req.new_df) :
          LET j == first_of_key(tables.MAPPING, req.new_df[i].pk)
          IN  /\ j # 0
              /\ tables.MAPPING[j].m["METRIC_L1"] = Null
              /\ req.new_df[i].m["METRIC_L1"] = Sp
              /\ ~FieldDiffed(i, "METRIC_L1")
              /\ FieldDiffed(i, "METRIC_L2")

MergeExecutors == { "execute_merge_operation", "execute_adjustment_upsert_merge" }

\* C7: reported counts match the store.  On success the executor returns
\* the inserted and updated counts of the MERGE result row; all submitted
\* records count as updates only when the result row carries no counts.
C7_CountsMatchStore ==
    (pc = "returned" /\ result.success /\ call.fn \in MergeExecutors)
    => IF call.result_row.present
       THEN /\ result.inserts = call.result_row.inserted
            /\ result.updates = call.result_row.updated
       ELSE /\ result.inserts = 0
            /\ result.updates = Len(call.update_df)

\* the rows the target held when the call started / the rows added since
Old(t) == 1..Len(call.before)
Added(t) == (Len(call.before) + 1)..Len(t)

Audit == [by |-> current_user, at |-> current_timestamp]

\* C8: merge post-state.  After a successful merge, for every change record
\* every target row that had its key carries the staged tracked fields and
\* the updater identity and timestamp; in upsert mode a record whose key was
\* absent gives exactly one new row with the staged values and the creator
\* identity and timestamp; in update-only mode no row is added.
C8_MergePostState ==
    (pc = "returned" /\ result.success /\ call.fn \in MergeExecutors)
    => LET t == tables[req.table]
       IN  /\ Len(t) >= Len(call.before)
           /\ \A i \in Old(t) : t[i].pk = call.before[i].pk
           /\ \A n \in 1..Len(call.update_df) :
                 LET s == call.update_df[n]
                     had == { i \in Old(t) : call.before[i].pk = s.pk }
                 IN  /\ \A i \in had :
                           /\ \A c \in Range(req.cols) : t[i].m[c] = s.m[c]
                           /\ t[i].upd = Audit
                     /\ (had = {} /\ req.upsert) =>
                           /\ Cardinality({ i \in Added(t) : t[i].pk = s.pk }) = 1
                           /\ \A i \in Added(t) :
                                 t[i].pk = s.pk =>
                                    /\ \A c \in Range(req.cols) : t[i].m[c] = s.m[c]
                                    /\ t[i].crt = Audit
           /\ ~req.upsert => Len(t) = Len(call.before)
           /\ \A i \in Added(t) : \E n \in 1..Len(call.update_df) :
                 call.update_df[n].pk = t[i].pk

\* C8 witness: a successful upsert that updated a row and added one
C8_Witness ==
    /\ pc = "returned" /\ result.success /\ call.fn \in MergeExecutors
    /\ req.upsert
    /\ Len(tables[req.table]) > Len(call.before)
    /\ \E i \in 1..Len(call.before) :
          /\ tables[req.table][i].upd = Audit
          /\ tables[req.table][i].m # call.before[i].m

WriteIssued == \E i \in 1..Len(issued) : issued[i].op = "write"

\* C9 as stated: whenever a call that created a staging table returns, the
\* staging table no longer exists.
C9_StagingAlwaysRemoved ==
    (pc = "returned" /\ WriteIssued) => ~staging.exists

\* C9: the last statement a call that wrote a staging table issues before
\* it returns is the DROP of that table, and the table is gone unless that
\* DROP itself failed.
C9_StagingDropIssued ==
    (pc = "returned" /\ WriteIssued)
    => /\ issued[Len(issued)].op = "drop"
       /\ staging.exists => ~issued[Len(issued)].ok

\* C9 witness: a failed MERGE after which the handler dropped the table
C9_Witness ==
    /\ pc = "returned" /\ ~result.success
    /\ \E i \in 1..Len(issued) : issued[i].op = "merge" /\ ~issued[i].ok
    /\ issued[Len(issued)] = [op |-> "drop", ok |-> TRUE]
    /\ ~staging.exists

Count(op) == Cardinality({ i \in 1..Len(issued) : issued[i].op = op })

\* C10: no automatic retry.  Within one call the MERGE is issued at most
\* once and the staging write at most once, and after a failed store
\* statement neither is issued again.
C10_NoRetry ==
    /\ Count("merge") <= 1
    /\ Count("write") <= 1
    /\ \A i, j \in 1..Len(issued) :
          (i < j /\ ~issued[i].ok) => issued[j].op \notin { "write", "merge" }

\* C10 witness: a call that returned failure after its MERGE failed
C10_Witness ==
    /\ pc = "returned" /\ ~result.success
    /\ call.fn \in MergeExecutors
    /\ issued[Len(issued) - 1] = [op |-> "merge", ok |-> FALSE]
    /\ Count("merge") = 1

\* C28: viewing does not edit.  When the rows are rendered and no select
\* box is touched, the values saved for a row whose key is that of one
\* table row only are the row's baseline values, and "Preview Changes"
\* finds no change record.
C28_ViewingDoesNotEdit ==
    req.page = "coa_view" =>
       LET actual_df == load_actual_data(tables.MAPPING)
       IN  \A i \in 1..Len(req.new_df) :
              (\A j, h \in 1..Len(actual_df) :
                  (actual_df[j].pk = req.new_df[i].pk /\ actual_df[h].pk = req.new_df[i].pk)
                     => j = h)
                 => /\ \E j \in 1..Len(actual_df) : actual_df[j] = req.new_df[i]
                    /\ \A n \in 1..Len(changes) : changes[n].full_row # req.new_df[i]

\* C21: baseline and candidate are normalized identically.  The loader's
\* normalize and the upload's normalize_value give the same value for every
\* stored value, and an uploaded row whose key is that of exactly one table
\* row gets no field diff for a column where the file holds what the table
\* holds.
C21_NormalizedIdentically ==
    (req.page = "coa_csv" /\ pc \in {"preview", "no_changes"}) =>
       /\ \A j \in 1..Len(tables.MAPPING) : \A c \in Cols :
             normalize(tables.MAPPING[j].m[c]) = normalize_value(tables.MAPPING[j].m[c])
       /\ \A i \in 1..Len(req.csv_df) : \A j \in 1..Len(tables.MAPPING) : \A c \in Cols :
             (/\ \A h \in 1..Len(tables.MAPPING) :
                    (load_actual_data(<<tables.MAPPING[h]>>)[1].pk = req.new_df[i].pk)
                       <=> h = j
              /\ tables.MAPPING[j].m[c] = req.csv_df[i].m[c])
                => \A n \in 1..Len(changes) :
                      changes[n].full_row = req.new_df[i]
                         => c \notin DOMAIN changes[n].changed_fields


----------------------------------------------------------------------------
(* Two sessions pressing "Save Changes" on the metric hierarchy at the     *)
(* same time: components/hierarchy_editor.py save_hierarchy_changes.  In    *)
(* this specification pc, req, call and result are per session, staging    *)
(* maps the name of every existing temp table to its rows, and now is the  *)
(* wall clock in ticks of half a second.                                    *)

Sessions == {1, 2}

TicksPerSecond == 2

MaxNow == 2

\* line 418: datetime.now().strftime('%Y%m%d_%H%M%S'), the clock cut to
\* whole seconds
temp_hierarchy_name(t) == t \div TicksPerSecond

\* call: the update rows of the session's call, its temp_table (<<>> is
\* None, <<n>> the name n) and its inserts_count
ConcurrentInit ==
    /\ tables = [MAPPING            |-> Mapping0[1],
                 ADJUSTMENTS        |-> Adjustments0[1],
                 METRIC_HIERARCHY   |-> MetricHierarchy0,
                 CASHFLOW_HIERARCHY |-> CashflowHierarchy0]
    /\ staging = <<>>
    /\ pc = [s \in Sessions |-> "idle"]
    /\ req = [s \in Sessions |-> NoReq]
    /\ call = [s \in Sessions |->
                  [update_df |-> <<>>, temp_table |-> <<>>, inserts |-> 0]]
    /\ result = [s \in Sessions |-> NoResult]
    /\ changes = <<>>
    /\ issued = <<>>
    /\ now = 0
    /\ cache = <<>>

\* lines 298-410: the grid against the loaded rows, the added rows written
\* to the hierarchy table
CcSave(s) ==
    /\ pc[s] = "idle"
    /\ LET original_df == [i \in 1..Len(tables.METRIC_HIERARCHY) |->
                              [pk |-> tables.METRIC_HIERARCHY[i].pk,
                               m  |-> tables.METRIC_HIERARCHY[i].m]]
       IN  \E edited_df \in EditedGrids(original_df) :
              LET inserts_df == non_empty_inserts(find_inserts(edited_df, original_df))
                  updates_df == find_updates(edited_df, original_df)
              IN  /\ req' = [req EXCEPT ![s] =
                                [NoReq EXCEPT !.page = "hierarchy",
                                              !.table = "METRIC_HIERARCHY",
                                              !.new_df = edited_df,
                                              !.cols = METRIC_COLUMNS]]
                  /\ tables' = [tables EXCEPT !.METRIC_HIERARCHY =
                                   @ \o [j \in 1..Len(inserts_df) |->
                                            [pk  |-> inserts_df[j].pk,
                                             m   |-> inserts_df[j].m,
                                             upd |-> [by |-> current_user,
                                                      at |-> current_timestamp],
                                             crt |-> NoAudit]]]
                  /\ call' = [call EXCEPT ![s] = [update_df  |-> updates_df,
                                                  temp_table |-> <<>>,
                                                  inserts    |-> Len(inserts_df)]]
                  /\ IF updates_df = <<>>
                     THEN /\ pc' = [pc EXCEPT ![s] = "returned"]
                          /\ result' = [result EXCEPT ![s] =
                                           [success |-> TRUE,
                                            inserts |-> Len(inserts_df),
                                            updates |-> 0]]
                     ELSE /\ pc' = [pc EXCEPT ![s] = "name"]
                          /\ UNCHANGED result
    /\ UNCHANGED <<staging, changes, issued, now, cache>>

\* line 418: the temp table is named after the clock
CcName(s) ==
    /\ pc[s] = "name"
    /\ call' = [call EXCEPT ![s].temp_table = <<temp_hierarchy_name(now)>>]
    /\ pc' = [pc EXCEPT ![s] = "write"]
    /\ UNCHANGED <<tables, staging, req, changes, issued, result, now, cache>>

\* lines 420-425: write_pandas(auto_create_table=True, overwrite=True)
\* creates the named table or replaces its rows
CcWrite(s) ==
    /\ pc[s] = "write"
    /\ LET temp_table == call[s].temp_table[1]
       IN  staging' = [n \in DOMAIN staging \cup {temp_table} |->
                          IF n = temp_table THEN call[s].update_df ELSE staging[n]]
    /\ pc' = [pc EXCEPT ![s] = "merge"]
    /\ UNCHANGED <<tables, req, changes, call, issued, result, now, cache>>

\* lines 428-445: MERGE from the named table; the statement raises when
\* the table does not exist or two of its rows match one target row
CcMerge(s) ==
    /\ pc[s] = "merge"
    /\ LET temp_table == call[s].temp_table[1]
       IN  IF temp_table \in DOMAIN staging
              /\ deterministic_merge(tables.METRIC_HIERARCHY, staging[temp_table])
           THEN /\ tables' = [tables EXCEPT !.METRIC_HIERARCHY =
                                 merge_into(@, staging[temp_table],
                                            Range(METRIC_COLUMNS), FALSE,
                                            current_user, current_timestamp).table]
                /\ pc' = [pc EXCEPT ![s] = "drop"]
           ELSE /\ pc' = [pc EXCEPT ![s] = "except"]
                /\ UNCHANGED tables
    /\ UNCHANGED <<staging, req, changes, call, issued, result, now, cache>>

\* lines 448-463: DROP TABLE IF EXISTS, then the counts are returned
CcDrop(s) ==
    /\ pc[s] = "drop"
    /\ staging' = [n \in DOMAIN staging \ {call[s].temp_table[1]} |-> staging[n]]
    /\ call' = [call EXCEPT ![s].temp_table = <<>>]
    /\ result' = [result EXCEPT ![s] =
                     [success |-> TRUE,
                      inserts |-> call[s].inserts,
                      updates |-> Len(call[s].update_df)]]
    /\ pc' = [pc EXCEPT ![s] = "returned"]
    /\ UNCHANGED <<tables, req, changes, issued, now, cache>>

\* lines 465-473: the temp table is dropped and the failure returned
CcExcept(s) ==
    /\ pc[s] = "except"
    /\ staging' = [n \in DOMAIN staging \ {call[s].temp_table[1]} |-> staging[n]]
    /\ result' = [result EXCEPT ![s] = NoResult]
    /\ pc' = [pc EXCEPT ![s] = "returned"]
    /\ UNCHANGED <<tables, req, changes, call, issued, now, cache>>

\* the wall clock advances
Tick ==
    /\ now < MaxNow
    /\ now' = now + 1
    /\ UNCHANGED <<tables, staging, pc, req, changes, call, issued, result, cache>>

ConcurrentSpec ==
    ConcurrentInit
    /\ [][\/ \E s \in Sessions : CcSave(s)
          \/ \E s \in Sessions : CcName(s)
          \/ \E s \in Sessions : CcWrite(s)
          \/ \E s \in Sessions : CcMerge(s)
          \/ \E s \in Sessions : CcDrop(s)
          \/ \E s \in Sessions : CcExcept(s)
          \/ Tick]_vars

\* C11: staging areas never collide.  Two calls that hold a staging table
\* at the same time hold tables of different names.
C11_StagingNamesDistinct ==
    \A s, t \in Sessions :
       (s # t /\ call[s].temp_table # <<>> /\ call[t].temp_table # <<>>)
          => call[s].temp_table # call[t].temp_table

----------------------------------------------------------------------------
(* The validators and the tree builders applied to one candidate row.      *)
(* Here req holds the page and the candidate row, and result what the      *)
(* validators and builders returned.                                        *)

MaxHier == 3        \* rows of a hierarchy table

NullWord == <<"n", "u", "l", "l">>
IS == <<"I", "S">>
XX == <<"X", "X">>

\* a variant of validate_hierarchy without the branch for IS rows
validate_hierarchy_no_is(row, metric_df, cashflow_df) ==
    row_errors([c \in DOMAIN row |-> normalize_value(row[c])], metric_df, cashflow_df)
       \ {"cashflow_not_blank"}

\* validate_hierarchy (inline edits): the errors of one row
validate_hierarchy(row, metric_df, cashflow_df) ==
    LET nv(c) == normalize_value(row[c])
        path(cols) == path_key([c \in Range(cols) |-> nv(c)], cols)
        is_bs == nv("IS_BS")
        l1 == nv("METRIC_L1")
        debt_val == nv("DEBT_MAPPING")
    IN  (IF path(METRIC_COLUMNS) \notin valid_paths(metric_df, METRIC_COLUMNS)
         THEN {"metric"} ELSE {})
        \cup
        (IF is_bs \notin { <<>>, IS, BS } THEN {"is_bs"} ELSE {})
        \cup
        (IF is_bs = BS
            /\ path(CASHFLOW_COLUMNS) \notin valid_paths(cashflow_df, CASHFLOW_COLUMNS)
         THEN {"cashflow"} ELSE {})
        \cup
        (IF is_bs = IS /\ \E i \in 1..Len(CASHFLOW_COLUMNS) : nv(CASHFLOW_COLUMNS[i]) # <<>>
         THEN {"cashflow_not_blank"} ELSE {})
        \cup
        (IF Is_DM /\ l1 \in LiabilityL1 /\ debt_val # <<>> /\ debt_val \notin DEBT_MAPPING_OPTIONS
         THEN {"debt_invalid"} ELSE {})
        \cup
        (IF Is_DM /\ l1 \notin LiabilityL1 /\ debt_val # <<>>
         THEN {"debt_not_blank"} ELSE {})

\* normalize_adjustment_csv then the loop body of validate_adjustment_csv
\* (lines 83-133) for one uploaded row: the errors of the row, with the
\* adj_type_options and years_list the pages pass
adjustment_csv_errors(raw) ==
    LET ADJ_TYPE_OPTIONS == { <<"Lender Adjustment">>, <<"Pro-Forma Adjustment">>,
                              <<"Management Adjustment">> }
        years_list == { 2025, 2026 }
        text(v) == IF isna(v) THEN v ELSE strip(v)
        pk_val == pk_to_int(text(raw.pk[1]))
        adj_type == text(raw.ADJ_TYPE)
        month == to_numeric(text(raw.MONTH))
        year == to_numeric(text(raw.YEAR))
        required ==
            (IF isna(adj_type) \/ adj_type = <<>> THEN {"adj_type_required"} ELSE {})
            \cup (IF month = NaN THEN {"month_required"} ELSE {})
            \cup (IF year = NaN THEN {"year_required"} ELSE {})
    IN  IF required # {} THEN required
        ELSE (IF month < 1 \/ month > 12 THEN {"month"} ELSE {})
             \cup (IF year \notin years_list THEN {"year"} ELSE {})
             \cup (IF adj_type \notin ADJ_TYPE_OPTIONS THEN {"adj_type"}
                   ELSE IF adj_type \in { <<"Lender Adjustment">>, <<"Pro-Forma Adjustment">> }
                           /\ pk_val # 0
                   THEN {"zero_key"} ELSE {})

\* hierarchy rows as stored
TreeRows ==
    << HRow(1, Null, Null, METRIC_COLUMNS), HRow(2, A, Null, METRIC_COLUMNS),
       HRow(3, A, B, METRIC_COLUMNS),       HRow(4, A, NullWord, METRIC_COLUMNS),
       HRow(5, B, Null, METRIC_COLUMNS),    HRow(6, SpA, Sp, METRIC_COLUMNS),
       HRow(7, A, E, METRIC_COLUMNS),       HRow(8, B, B, METRIC_COLUMNS) >>

\* candidate mapping rows
TreeCandidates ==
    { CsvRow(<<"7">>, [MRow(A, l2, is_bs, cf1, Null) EXCEPT !["DEBT_MAPPING"] = debt]) :
        l2 \in {Sp, B, NullWord}, is_bs \in {Null, IS, BS, XX},
        cf1 \in {Null, C, A}, debt \in {Null, E} }

\* uploaded adjustment rows
AdjCandidates ==
    { [pk |-> <<id>>, ADJ_TYPE |-> t, MONTH |-> mo, YEAR |-> y, AMOUNT |-> <<"5">>] :
        id \in { <<"0">>, <<"7">> },
        t \in { Null, <<"Lender Adjustment">>, <<"Management Adjustment">>, <<"Other">> },
        mo \in { Null, <<"1">>, <<"1", "3">> },
        y \in { <<"2", "0", "2", "5">>, <<"1", "8", "0", "0">> } }

ValidateInit ==
    /\ \/ /\ \E stored \in SUBSET Range(TreeRows) :
                /\ stored # {}
                /\ Cardinality(stored) <= MaxHier
                /\ tables = [MAPPING            |-> <<>>,
                             ADJUSTMENTS        |-> <<>>,
                             METRIC_HIERARCHY   |->
                                 SelectSeq(TreeRows, LAMBDA r : r \in stored),
                             CASHFLOW_HIERARCHY |-> CashflowHierarchy0]
          /\ \E row \in TreeCandidates :
                req = [NoReq EXCEPT !.page = "coa", !.new_df = <<row>>]
       \/ /\ tables = [MAPPING            |-> <<>>,
                       ADJUSTMENTS        |-> <<>>,
                       METRIC_HIERARCHY   |-> MetricHierarchy0,
                       CASHFLOW_HIERARCHY |-> CashflowHierarchy0]
          /\ \E row \in AdjCandidates :
                req = [NoReq EXCEPT !.page = "adjustments", !.new_df = <<row>>]
    /\ staging = NoStaging
    /\ pc = "idle"
    /\ changes = <<>>
    /\ call = NoCall
    /\ issued = <<>>
    /\ result = NoResult
    /\ now = 0
    /\ cache = <<>>

\* the hierarchies loaded, both trees built, the row put through both
\* hierarchy validators
ValidateRow ==
    /\ pc = "idle"
    /\ req.page = "coa"
    /\ LET metric_df == load_hierarchy(tables.METRIC_HIERARCHY, METRIC_COLUMNS)
           cashflow_df == load_hierarchy(tables.CASHFLOW_HIERARCHY, CASHFLOW_COLUMNS)
           csv_df == normalize_csv_data(req.new_df)
       IN  result' =
              [metric_tree   |-> build_tree_from_df(metric_df, METRIC_COLUMNS),
               cashflow_tree |-> build_tree_from_df(cashflow_df, CASHFLOW_COLUMNS),
               csv_errors    |-> row_errors(csv_df[1].m, metric_df, cashflow_df),
               invalid_rows  |-> validate_csv_hierarchy(req.new_df, metric_df, cashflow_df),
               row_errors    |-> validate_hierarchy(req.new_df[1].m, metric_df, cashflow_df)]
    /\ pc' = "validated"
    /\ UNCHANGED <<tables, staging, req, changes, call, issued, now, cache>>

\* an uploaded adjustment row put through validate_adjustment_csv
ValidateAdjustment ==
    /\ pc = "idle"
    /\ req.page = "adjustments"
    /\ result' = [errors |-> adjustment_csv_errors(req.new_df[1])]
    /\ pc' = "validated"
    /\ UNCHANGED <<tables, staging, req, changes, call, issued, now, cache>>

ValidateSpec == ValidateInit /\ [][ValidateRow \/ ValidateAdjustment]_vars

\* C12: blank-first ordering.  In a built tree the options of every node
\* have no duplicates, the empty string comes first whenever it is an
\* option, and the other options are in strictly increasing order.
C12_BlankFirstOrdering ==
    (pc = "validated" /\ req.page = "coa") =>
       \A tree \in {result.metric_tree, result.cashflow_tree} :
          \A p \in DOMAIN tree :
             LET options == tree[p]
                 others == SelectSeq(options, LAMBDA opt : opt # <<>>)
             IN  /\ \A i, j \in 1..Len(options) : i # j => options[i] # options[j]
                 /\ (\E i \in 1..Len(options) : options[i] = <<>>) => options[1] = <<>>
                 /\ \A i \in 1..(Len(others) - 1) : str_lt(others[i], others[i + 1])

\* a built tree with a node offering the blank option and two others
C12_Witness ==
    /\ pc = "validated"
    /\ req.page = "coa"
    /\ \E p \in DOMAIN result.metric_tree :
          /\ Len(result.metric_tree[p]) >= 3
          /\ result.metric_tree[p][1] = <<>>

\* C13: path reachability.  Walking a hierarchy row's own level values
\* through get_options_from_tree gives, at every depth, a non-empty list
\* that holds the row's next level value; and a node exists at a path
\* exactly when some hierarchy row starts with that path.
C13_PathReachability ==
    (pc = "validated" /\ req.page = "coa") =>
       LET df == load_hierarchy(tables.METRIC_HIERARCHY, METRIC_COLUMNS)
           levels(i) == [k \in 1..Len(METRIC_COLUMNS) |-> df[i].m[METRIC_COLUMNS[k]]]
           tree == result.metric_tree
       IN  /\ \A i \in 1..Len(df) : \A k \in 0..(Len(METRIC_COLUMNS) - 1) :
                LET options == get_options_from_tree(tree, SubSeq(levels(i), 1, k))
                IN  /\ options # <<>>
                    /\ \E n \in 1..Len(options) : options[n] = levels(i)[k + 1]
           /\ DOMAIN tree \ { <<>> } =
                 { SubSeq(levels(i), 1, k) : i \in 1..Len(df), k \in 1..Len(METRIC_COLUMNS) }

\* a tree built from rows that include a blank level below a filled one
C13_Witness ==
    /\ pc = "validated"
    /\ req.page = "coa"
    /\ <<A, <<>>>> \in DOMAIN result.metric_tree
    /\ <<A, B>> \in DOMAIN result.metric_tree

\* C18: validator and cascade tree agree.  A row gets a metric hierarchy
\* error from validate_csv_hierarchy and from validate_hierarchy exactly
\* when walking its six normalized level values through
\* get_options_from_tree meets a value that is not among the options at
\* its depth; likewise for the cashflow levels of a BS row.
C18_ValidatorAgreesWithTree ==
    (pc = "validated" /\ req.page = "coa") =>
       LET nv(c) == normalize_value(req.new_df[1].m[c])
           levels(cols) == [k \in 1..Len(cols) |-> nv(cols[k])]
           walk_fails(tree, values) ==
              \E k \in 0..(Len(values) - 1) :
                 LET options == get_options_from_tree(tree, SubSeq(values, 1, k))
                 IN  ~ \E n \in 1..Len(options) : options[n] = values[k + 1]
           metric_fails == walk_fails(result.metric_tree, levels(METRIC_COLUMNS))
           cashflow_fails == walk_fails(result.cashflow_tree, levels(CASHFLOW_COLUMNS))
       IN  /\ "metric" \in result.csv_errors <=> metric_fails
           /\ "metric" \in result.row_errors <=> metric_fails
           /\ nv("IS_BS") = BS =>
                 /\ "cashflow" \in result.csv_errors <=> cashflow_fails
                 /\ "cashflow" \in result.row_errors <=> cashflow_fails

\* C19: all errors are collected.  The errors validate_adjustment_csv
\* returns for an uploaded row are exactly the rules the row violates:
\* each required field that is missing, a month outside 1..12, a year
\* outside the list, a type outside the options, a non-zero key on a
\* Lender or Pro-Forma adjustment.
C19_AllErrorsCollected ==
    (pc = "validated" /\ req.page = "adjustments") =>
       LET raw == req.new_df[1]
           blank(v) == isna(v) \/ strip(v) = <<>>
           number(v) == IF blank(v) THEN NaN ELSE to_numeric(strip(v))
           zero_key_types == { <<"Lender Adjustment">>, <<"Pro-Forma Adjustment">> }
           violated ==
              (IF blank(raw.ADJ_TYPE) THEN {"adj_type_required"} ELSE {})
              \cup (IF blank(raw.MONTH) THEN {"month_required"} ELSE {})
              \cup (IF blank(raw.YEAR) THEN {"year_required"} ELSE {})
              \cup (IF ~ blank(raw.MONTH) /\ number(raw.MONTH) \notin 1..12
                    THEN {"month"} ELSE {})
              \cup (IF ~ blank(raw.YEAR) /\ number(raw.YEAR) \notin {2025, 2026}
                    THEN {"year"} ELSE {})
              \cup (IF ~ blank(raw.ADJ_TYPE)
                       /\ strip(raw.ADJ_TYPE) \notin
                             zero_key_types \cup { <<"Management Adjustment">> }
                    THEN {"adj_type"} ELSE {})
              \cup (IF ~ blank(raw.ADJ_TYPE) /\ strip(raw.ADJ_TYPE) \in zero_key_types
                       /\ number(raw.pk[1]) # 0
                    THEN {"zero_key"} ELSE {})
       IN  result.errors = violated

\* C20: secondary-hierarchy activation.  A BS row gets a cashflow error
\* exactly when its cashflow path is not a row of the cashflow hierarchy,
\* an IS row exactly when one of its cashflow fields is filled, a row with
\* blank IS_BS never; validate_hierarchy and validate_csv_hierarchy return
\* the same errors for the row.
C20_SecondaryActivation ==
    (pc = "validated" /\ req.page = "coa") =>
       LET nv(c) == normalize_value(req.new_df[1].m[c])
           is_bs == nv("IS_BS")
           cf_levels(m) == [k \in 1..Len(CASHFLOW_COLUMNS) |->
                               normalize_value(m[CASHFLOW_COLUMNS[k]])]
           cashflow_df == load_hierarchy(tables.CASHFLOW_HIERARCHY, CASHFLOW_COLUMNS)
           is_path == \E i \in 1..Len(cashflow_df) :
                         cf_levels(cashflow_df[i].m) = cf_levels(req.new_df[1].m)
           filled == \E c \in Range(CASHFLOW_COLUMNS) : nv(c) # <<>>
           cf_errors(errors) == errors \cap {"cashflow", "cashflow_not_blank"}
       IN  /\ is_bs = BS =>
                 cf_errors(result.row_errors) = (IF is_path THEN {} ELSE {"cashflow"})
           /\ is_bs = IS =>
                 cf_errors(result.row_errors) =
                    (IF filled THEN {"cashflow_not_blank"} ELSE {})
           /\ is_bs = <<>> => cf_errors(result.row_errors) = {}
           /\ result.csv_errors = result.row_errors
           /\ (result.invalid_rows = {}) <=> (result.row_errors = {})

\* an IS row with a filled cashflow level, flagged by both validators
C20_Witness ==
    /\ pc = "validated"
    /\ req.page = "coa"
    /\ normalize_value(req.new_df[1].m["IS_BS"]) = IS
    /\ req.new_df[1].m["CASHFLOW_L1"] = C
    /\ "cashflow_not_blank" \in result.row_errors
    /\ "cashflow_not_blank" \in result.csv_errors

----------------------------------------------------------------------------
(* utils/cascade_helper.py: the cached cascade loader, called by every run *)
(* of the COA page, and the hierarchy tab's save handler.  Here pc and     *)
(* call are per session and LAST_UPDATED_AT of a hierarchy row is <<>>     *)
(* (NULL) or <<t>>.  cache holds the st.cache_data entries.  req says      *)
(* whether the store answers the MAX and the COUNT query of the version    *)
(* probe.  History: issued holds the last finished loader call, changes    *)
(* the trees the builder returned since the cache was last cleared (less   *)
(* the expired ones), result whether a save cleared the cache since the    *)
(* last loader call and which versions it cleared.                          *)

company == "Access Holdings"

\* SELECT MAX(LAST_UPDATED_AT): <<>> when no row has one
max_last_updated_at(table) ==
    LET stamps == { table[i].upd.at[1] :
                      i \in { j \in 1..Len(table) : table[j].upd.at # <<>> } }
    IN  IF stamps = {} THEN <<>>
        ELSE << CHOOSE x \in stamps : \A y \in stamps : y <= x >>

\* get_hierarchy_version: MAX(LAST_UPDATED_AT) when the query returns a
\* value, the row count when that query raised and the count query did
\* not, the current time otherwise.  max_ok / count_ok: the query does not
\* raise.
get_hierarchy_version(table, max_ok, count_ok, t) ==
    IF max_ok
    THEN IF max_last_updated_at(table) # <<>>
         THEN <<"ts", max_last_updated_at(table)[1]>>
         ELSE <<"now", t>>
    ELSE IF count_ok THEN <<"count", Len(table)>> ELSE <<"now", t>>

\* a variant of the key that leaves the version out
cache_key_unversioned(fn, co, version) == [fn |-> fn, co |-> co, version |-> <<>>]

\* the st.cache_data key of a cached function call: the function and its
\* hashed arguments (the dataframe argument, named with a leading
\* underscore, is not hashed)
cache_key(fn, co, version) == [fn |-> fn, co |-> co, version |-> version]

\* the locals of a loader call that is not running
NoLoad == [df |-> <<>>, version |-> <<>>, max |-> <<>>, count |-> 0, rows |-> <<>>]

CascadeInit ==
    /\ \E stamp \in { <<>>, <<0>> } :
          tables = [MAPPING            |-> <<>>,
                    ADJUSTMENTS        |-> <<>>,
                    METRIC_HIERARCHY   |->
                        [i \in 1..2 |-> [pk  |-> <<i>>,
                                         m   |-> MetricHierarchy0[i + 1].m,
                                         upd |-> [by |-> "", at |-> stamp],
                                         crt |-> NoAudit]],
                    CASHFLOW_HIERARCHY |-> CashflowHierarchy0]
    /\ staging = NoStaging
    /\ pc = [s \in Sessions |-> "idle"]
    /\ \E probe \in { <<TRUE, TRUE>>, <<FALSE, TRUE>>, <<FALSE, FALSE>> } :
          req = [max_ok |-> probe[1], count_ok |-> probe[2]]
    /\ changes = {}
    /\ call = [s \in Sessions |-> NoLoad]
    /\ issued = <<>>
    /\ result = [saved |-> FALSE, cleared |-> {}]
    /\ now = 0
    /\ cache = <<>>

\* what is remembered of a finished load_metric_cascade call: its token,
\* what the two probe queries had to offer, the hierarchy rows as a read
\* of the table gave them when the token was probed, whether the builder
\* ran, the tree returned, the trees built for the token before, whether
\* the call followed a save
LoadEvent(c, built, tree) ==
    << [version |-> c.version, max |-> c.max, count |-> c.count,
        rows |-> c.rows, built |-> built, tree |-> tree,
        known |-> { h.tree : h \in { g \in changes : g.version = c.version } },
        after_save |-> result.saved] >>

\* COA.py 114 and cascade_helper.py 178-179: the page loads the hierarchy
\* frame (itself cached by table name), the loader computes the version
\* token and st.cache_data reads the cache: an entry under the key is
\* returned, without one the decorated function is called
LcLookup(s) ==
    /\ pc[s] = "idle"
    /\ LET df_key == cache_key("load_metric_hierarchy", "METRIC_HIERARCHY", <<>>)
           df == IF df_key \in DOMAIN cache THEN cache[df_key]
                 ELSE load_hierarchy(tables.METRIC_HIERARCHY, METRIC_COLUMNS)
           c == [df      |-> df,
                 version |-> get_hierarchy_version(tables.METRIC_HIERARCHY,
                                                   req.max_ok, req.count_ok, now),
                 max     |-> max_last_updated_at(tables.METRIC_HIERARCHY),
                 count   |-> Len(tables.METRIC_HIERARCHY),
                 rows    |-> load_hierarchy(tables.METRIC_HIERARCHY, METRIC_COLUMNS)]
           key == cache_key("_get_metric_cascade", company, c.version)
       IN  /\ cache' = [k \in DOMAIN cache \cup {df_key} |->
                           IF k = df_key THEN df ELSE cache[k]]
           /\ IF key \in DOMAIN cache
              THEN /\ issued' = LoadEvent(c, FALSE, cache[key])
                   /\ result' = [result EXCEPT !.saved = FALSE]
                   /\ UNCHANGED <<pc, call>>
              ELSE /\ pc' = [pc EXCEPT ![s] = "build"]
                   /\ call' = [call EXCEPT ![s] = c]
                   /\ UNCHANGED <<issued, result>>
    /\ UNCHANGED <<tables, staging, req, changes, now>>

\* lines 160-163: the builder runs, its tree is stored under the key and
\* returned
LcBuild(s) ==
    /\ pc[s] = "build"
    /\ LET key == cache_key("_get_metric_cascade", company, call[s].version)
           tree == build_tree_from_df(call[s].df, METRIC_COLUMNS)
       IN  /\ cache' = [k \in DOMAIN cache \cup {key} |->
                           IF k = key THEN tree ELSE cache[k]]
           /\ issued' = LoadEvent(call[s], TRUE, tree)
           /\ changes' = { h \in changes : h.version # call[s].version }
                            \cup { [version |-> call[s].version, tree |-> tree] }
    /\ result' = [result EXCEPT !.saved = FALSE]
    /\ pc' = [pc EXCEPT ![s] = "idle"]
    /\ call' = [call EXCEPT ![s] = NoLoad]
    /\ UNCHANGED <<tables, staging, req, now>>

\* the rows of the hierarchy table after a save: the METRIC_L2 of row 1
\* retyped (an update), or one row added (an insert)
SavedTables(table, t) ==
    { [table EXCEPT ![1].m["METRIC_L2"] = E,
                    ![1].upd = [by |-> current_user, at |-> <<t>>]] :
        n \in { k \in {1} : table[1].m["METRIC_L2"] # E } }
    \cup
    { table \o << [pk  |-> <<Len(table) + 1>>,
                   m   |-> HRow(0, A, C, METRIC_COLUMNS).m,
                   upd |-> [by |-> current_user, at |-> <<t>>],
                   crt |-> NoAudit] >> : n \in { k \in {1} : Len(table) < MaxHier } }

\* a variant of the save handler that leaves the cache alone
HierSaveNoClear(s) ==
    /\ pc[s] = "idle"
    /\ \E saved \in SavedTables(tables.METRIC_HIERARCHY, now) :
          tables' = [tables EXCEPT !.METRIC_HIERARCHY = saved]
    /\ result' = [saved |-> TRUE, cleared |-> { h.version : h \in changes }]
    /\ UNCHANGED <<staging, pc, req, changes, call, issued, now, cache>>

\* COA.py 511-545 (Zeus.py 374-410): "Save Changes" on the hierarchy tab
\* with save_hierarchy_changes succeeding and a row inserted or updated:
\* the rows are written, invalidate_cascade_cache() clears every
\* st.cache_data entry and the page is run again
HierSaveClear(s) ==
    /\ pc[s] = "idle"
    /\ \E saved \in SavedTables(tables.METRIC_HIERARCHY, now) :
          tables' = [tables EXCEPT !.METRIC_HIERARCHY = saved]
    /\ cache' = <<>>
    /\ changes' = {}
    /\ result' = [saved |-> TRUE, cleared |-> { h.version : h \in changes }]
    /\ UNCHANGED <<staging, pc, req, call, issued, now>>

\* hierarchy_editor.py 401-405 and 465-473, COA.py 543-544: "Save Changes"
\* with an added row written by write_pandas and the update step raising:
\* save_hierarchy_changes returns a failure, the page shows the error and
\* clears nothing
HierSaveFails(s) ==
    /\ pc[s] = "idle"
    /\ Len(tables.METRIC_HIERARCHY) < MaxHier
    /\ tables' = [tables EXCEPT !.METRIC_HIERARCHY =
                     @ \o << [pk  |-> <<Len(@) + 1>>,
                              m   |-> HRow(0, A, C, METRIC_COLUMNS).m,
                              upd |-> [by |-> current_user, at |-> <<now>>],
                              crt |-> NoAudit] >>]
    /\ UNCHANGED <<staging, pc, req, changes, call, issued, result, now, cache>>

\* ttl=3600: an entry expires
Expire ==
    /\ \E key \in DOMAIN cache :
          /\ cache' = [k \in DOMAIN cache \ {key} |-> cache[k]]
          /\ changes' = IF key.fn = "_get_metric_cascade"
                        THEN { h \in changes : h.version # key.version }
                        ELSE changes
    /\ UNCHANGED <<tables, staging, pc, req, call, issued, result, now>>

\* one session using the page
CascadeSpec ==
    CascadeInit
    /\ [][\/ LcLookup(1)
          \/ LcBuild(1)
          \/ HierSaveClear(1)
          \/ HierSaveFails(1)
          \/ Expire
          \/ Tick]_vars

\* C14: token-keyed caching.  A loader call whose token was built before,
\* with no clearing or expiry since, returns that tree and the builder does
\* not run; a call whose token was not built before runs the builder.
C14_TokenKeyedCaching ==
    issued # <<>> =>
       /\ issued[1].built <=> issued[1].known = {}
       /\ ~ issued[1].built => issued[1].known = { issued[1].tree }

\* a call answered from the cache after the hierarchy frame was read again
C14_Witness ==
    /\ issued # <<>>
    /\ ~ issued[1].built
    /\ issued[1].known = { issued[1].tree }

\* C15: explicit invalidation.  After a successful save of hierarchy rows
\* no cascade entry is left in the cache, and the first loader call after
\* the save runs the builder.
C15_InvalidationAfterSave ==
    /\ result.saved => \A k \in DOMAIN cache : k.fn # "_get_metric_cascade"
    /\ (issued # <<>> /\ issued[1].after_save) => issued[1].built

\* the first call after a save rebuilt a tree whose token the save left
\* unchanged
C15_Witness ==
    /\ issued # <<>>
    /\ issued[1].after_save
    /\ issued[1].built
    /\ issued[1].version \in result.cleared

\* C27: a cached tree matches its token.  The tree a loader call returns
\* for a version token, built or read from the cache, is the tree built
\* from the hierarchy rows as they were in the table when the token was
\* probed.
C27_CachedTreeMatchesToken ==
    issued # <<>> =>
       issued[1].tree = build_tree_from_df(issued[1].rows, METRIC_COLUMNS)

\* C17: version-token fallback order.  The token is the max update
\* timestamp when the probe yields one, the row count whenever it does not
\* and the count probe succeeds, and the current time only when neither is
\* available.
C17_VersionFallbackOrder ==
    issued # <<>> =>
       LET e == issued[1]
           max_available == req.max_ok /\ e.max # <<>>
       IN  /\ max_available => e.version = <<"ts", e.max[1]>>
           /\ (~ max_available /\ req.count_ok) => e.version = <<"count", e.count>>
           /\ e.version[1] = "now" => (~ max_available /\ ~ req.count_ok)

----------------------------------------------------------------------------
(* modules/Job_orchestration.py run_full_pipeline: the dbt job is          *)
(* triggered, its run polled, then the Power BI refresh requested.  Here   *)
(* pc is the position in the function, call its locals, result the dict    *)
(* it returns.  History: issued counts the status polls and the refresh    *)
(* requests sent, changes is the set of answers the polls gave.            *)

max_wait == 600         \* seconds
poll_interval == 10     \* seconds

PipelineInit ==
    /\ tables = [MAPPING |-> <<>>, ADJUSTMENTS |-> <<>>,
                 METRIC_HIERARCHY |-> <<>>, CASHFLOW_HIERARCHY |-> <<>>]
    /\ staging = NoStaging
    /\ pc = "idle"
    /\ req = NoReq
    /\ changes = {}
    /\ call = [elapsed |-> 0]
    /\ issued = [poll |-> 0, refresh |-> 0]
    /\ result = [dbt     |-> [success |-> FALSE, status |-> ""],
                 powerbi |-> [success |-> FALSE]]
    /\ now = 0
    /\ cache = <<>>

\* lines 297-312: trigger_dbt_job; on failure the function returns
PpTrigger ==
    /\ pc = "idle"
    /\ \E success \in BOOLEAN :
          IF success
          THEN /\ result' = [result EXCEPT !.dbt = [success |-> TRUE, status |-> "Running"]]
               /\ pc' = "loop"
          ELSE /\ pc' = "returned"
               /\ UNCHANGED result
    /\ UNCHANGED <<tables, staging, req, changes, call, issued, now, cache>>

\* a variant of the loop body that leaves the loop on a failed run as it
\* does on a successful one
PpPollBreaksOnFailure ==
    /\ pc = "loop"
    /\ call.elapsed < max_wait
    /\ call' = [elapsed |-> call.elapsed + poll_interval]
    /\ issued' = [issued EXCEPT !.poll = @ + 1]
    /\ \E status \in {"Unreachable", "Running", "Success", "Error"} :
          /\ changes' = changes \cup {status}
          /\ IF status = "Success"
             THEN /\ result' = [result EXCEPT !.dbt.status = "Success"]
                  /\ pc' = "after"
             ELSE IF status = "Error"
             THEN /\ result' = [result EXCEPT !.dbt.status = "Failed"]
                  /\ pc' = "after"
             ELSE UNCHANGED <<result, pc>>
    /\ UNCHANGED <<tables, staging, req, now, cache>>

\* lines 319-334, one turn of the loop: sleep, get_dbt_run_status; a
\* completed run ends the loop (success) or the function (error,
\* cancelled); an unreachable API or a run still going is polled again
PpPoll ==
    /\ pc = "loop"
    /\ call.elapsed < max_wait
    /\ call' = [elapsed |-> call.elapsed + poll_interval]
    /\ issued' = [issued EXCEPT !.poll = @ + 1]
    /\ \E status \in {"Unreachable", "Running", "Success", "Error"} :
          /\ changes' = changes \cup {status}
          /\ IF status = "Success"
             THEN /\ result' = [result EXCEPT !.dbt.status = "Success"]
                  /\ pc' = "after"
             ELSE IF status = "Error"
             THEN /\ result' = [result EXCEPT !.dbt.status = "Failed"]
                  /\ pc' = "returned"
             ELSE UNCHANGED <<result, pc>>
    /\ UNCHANGED <<tables, staging, req, now, cache>>

\* lines 319 and 336-339: the loop is over (break, or the window elapsed);
\* with the window used up the function returns status Timeout
PpAfterLoop ==
    /\ pc = "after" \/ (pc = "loop" /\ call.elapsed >= max_wait)
    /\ IF call.elapsed >= max_wait
       THEN /\ result' = [result EXCEPT !.dbt.status = "Timeout"]
            /\ pc' = "returned"
       ELSE /\ pc' = "refresh"
            /\ UNCHANGED result
    /\ UNCHANGED <<tables, staging, req, changes, call, issued, now, cache>>

\* lines 341-356: refresh_powerbi_dataset is called and the result returned
PpRefresh ==
    /\ pc = "refresh"
    /\ issued' = [issued EXCEPT !.refresh = @ + 1]
    /\ \E success \in BOOLEAN :
          result' = [result EXCEPT !.powerbi.success = success]
    /\ pc' = "returned"
    /\ UNCHANGED <<tables, staging, req, changes, call, now, cache>>

PipelineSpec ==
    PipelineInit /\ [][PpTrigger \/ PpPoll \/ PpAfterLoop \/ PpRefresh]_vars

\* C22: pipeline ordering.  The Power BI refresh is requested at most once
\* and only after a poll reported the run complete with success; a run that
\* could not be triggered, failed or timed out has no refresh request; and
\* no more than max_wait / poll_interval (60) polls are made.
C22_PipelineOrdering ==
    /\ issued.refresh <= 1
    /\ issued.refresh = 1 => "Success" \in changes
    /\ (pc = "returned"
        /\ (~ result.dbt.success \/ result.dbt.status \in {"Failed", "Timeout"}))
          => issued.refresh = 0
    /\ issued.poll <= 60
    /\ issued.poll * poll_interval = call.elapsed

\* a run that was polled several times, succeeded and was followed by the
\* refresh request
C22_Witness ==
    /\ pc = "returned"
    /\ issued.refresh = 1
    /\ issued.poll > 1
    /\ result.dbt.status = "Success"

\* C23: success is honoured up to the deadline.  When a poll in the wait
\* window, the 60th included, reported the run complete with success, the
\* function returns dbt status Success with the refresh requested; Timeout
\* is returned only when no poll reported a completed run.
C23_SuccessUpToDeadline ==
    pc = "returned" =>
       /\ "Success" \in changes =>
             (result.dbt.status = "Success" /\ issued.refresh = 1)
       /\ result.dbt.status = "Timeout" => changes \cap {"Success", "Error"} = {}

----------------------------------------------------------------------------
(* One browser session over two companies: the company selector, TAB 1 of  *)
(* the COA page and the bulk edit of the Adjustments page.                  *)
(* tables: per company the mapping rows [pk, name, mapped] and the          *)
(* adjustment rows [pk, name, amount]; req: st.session_state; call: the     *)
(* last bulk save, the company written and the companies its applied       *)
(* entries were recorded under.  An entry of edited_rows equal to the       *)
(* stored row gives no change record and is left out of edited_rows.        *)
(* Navigation between the two pages leaves st.session_state as it is.       *)

ROWS_PER_PAGE == 2      \* rows of a page (rows_per_page, 10 in components/tables.py)

user_companies == <<"Access Holdings", "Beta">>

SessionTables ==
    [MAPPING |->
        [co \in Range(user_companies) |->
            IF co = user_companies[1]
            THEN << [pk |-> 1, name |-> "x", mapped |-> FALSE],
                    [pk |-> 2, name |-> "y", mapped |-> FALSE],
                    [pk |-> 3, name |-> "x", mapped |-> FALSE] >>
            ELSE << [pk |-> 1, name |-> "x", mapped |-> FALSE] >>],
     ADJUSTMENTS |->
        [co \in Range(user_companies) |->
            << [pk |-> 1, name |-> "y", amount |-> 0] >>]]

\* utils/session_manager.py initialize_session_state, Adjustments.py 121-129
SessionInit ==
    /\ tables = SessionTables
    /\ req = [selected_company |-> user_companies[1], page_offset |-> 0,
              show_unmapped_only |-> FALSE, coa_applied_filters |-> {},
              edited_rows |-> {}, show_preview |-> FALSE,
              changes_to_apply |-> [under |-> user_companies[1], pks |-> {}],
              adj_applied_filters |-> {}, pending_amount_changes |-> <<>>]
    /\ call = [company |-> user_companies[1], under |-> {}]
    /\ staging = NoStaging /\ pc = "session" /\ changes = <<>>
    /\ issued = <<>> /\ result = NoResult /\ now = 0 /\ cache = <<>>

\* modules/COA.py apply_all_filters, components/filters.py
\* apply_filters_to_dataframe: an empty selection filters nothing
apply_all_filters(df, applied, show_unmapped) ==
    LET keep(r) == /\ show_unmapped => ~r.mapped
                   /\ applied # {} => r.name \in applied
    IN  SelectSeq(df, keep)

filtered_df_tab1 ==
    apply_all_filters(tables.MAPPING[req.selected_company],
                      req.coa_applied_filters, req.show_unmapped_only)

\* COA.py 185-187
total_pages ==
    LET pages == (Len(filtered_df_tab1) + ROWS_PER_PAGE - 1) \div ROWS_PER_PAGE
    IN  IF pages > 1 THEN pages ELSE 1

current_page == (req.page_offset \div ROWS_PER_PAGE) + 1

\* COA.py 210-212: filtered_df_tab1.iloc[start_idx:end_idx]
page_df ==
    LET end_idx == IF req.page_offset + ROWS_PER_PAGE < Len(filtered_df_tab1)
                   THEN req.page_offset + ROWS_PER_PAGE
                   ELSE Len(filtered_df_tab1)
    IN  SubSeq(filtered_df_tab1, req.page_offset + 1, end_idx)

SessionOnly == UNCHANGED <<staging, pc, changes, issued, result, now, cache>>

\* components/tables.py render_pagination_controls; a disabled button
\* cannot be clicked
PageClick ==
    /\ \/ /\ current_page # 1
          /\ req' = [req EXCEPT !.page_offset = 0]
       \/ /\ current_page # 1
          /\ req' = [req EXCEPT !.page_offset =
                        IF @ - ROWS_PER_PAGE > 0 THEN @ - ROWS_PER_PAGE ELSE 0]
       \/ /\ current_page < total_pages
          /\ req' = [req EXCEPT !.page_offset =
                        IF @ + ROWS_PER_PAGE < (total_pages - 1) * ROWS_PER_PAGE
                        THEN @ + ROWS_PER_PAGE
                        ELSE (total_pages - 1) * ROWS_PER_PAGE]
       \/ /\ current_page < total_pages
          /\ req' = [req EXCEPT !.page_offset = (total_pages - 1) * ROWS_PER_PAGE]
    /\ UNCHANGED <<tables, call>> /\ SessionOnly

\* COA.py 146-153 and components/filters.py: a changed checkbox or a
\* changed filter selection goes back to the first page
CoaFilter ==
    /\ \/ req' = [req EXCEPT !.show_unmapped_only = ~@, !.page_offset = 0]
       \/ \E f \in {{}, {"x"}} :
             /\ f # req.coa_applied_filters
             /\ req' = [req EXCEPT !.coa_applied_filters = f, !.page_offset = 0]
    /\ UNCHANGED <<tables, call>> /\ SessionOnly

\* COA.py 223-343: the user maps an unmapped row of the displayed page
CoaEdit ==
    /\ \E i \in 1..Len(page_df) :
          /\ ~page_df[i].mapped
          /\ req' = [req EXCEPT !.edited_rows = @ \cup {page_df[i].pk}]
    /\ UNCHANGED <<tables, call>> /\ SessionOnly

\* COA.py 350-363: Preview Changes
CoaPreview ==
    /\ req.edited_rows # {}
    /\ LET actual_df == tables.MAPPING[req.selected_company]
           found == { k \in req.edited_rows :
                        \E i \in 1..Len(actual_df) :
                           actual_df[i].pk = k /\ ~actual_df[i].mapped }
       IN  /\ found # {}
           /\ req' = [req EXCEPT !.changes_to_apply =
                                    [under |-> req.selected_company, pks |-> found],
                                 !.show_preview = TRUE]
    /\ UNCHANGED <<tables, call>> /\ SessionOnly

\* COA.py 366-375, preview.py 373-399: Confirm & Update with
\* cleanup_ui_edits on success, Cancel with the same callback
CoaConfirm ==
    /\ req.show_preview /\ req.changes_to_apply.pks # {}
    /\ LET co == req.selected_company
           cleaned == [req EXCEPT !.edited_rows = {}, !.show_preview = FALSE,
                                  !.changes_to_apply = [under |-> co, pks |-> {}]]
       IN  \/ /\ tables' = [tables EXCEPT !.MAPPING[co] =
                    [i \in 1..Len(@) |->
                        IF @[i].pk \in req.changes_to_apply.pks
                        THEN [@[i] EXCEPT !.mapped = TRUE] ELSE @[i]]]
              /\ req' = cleaned
           \/ /\ req' = cleaned
              /\ UNCHANGED tables
           \/ UNCHANGED <<tables, req>>
    /\ UNCHANGED call /\ SessionOnly

\* Adjustments.py 336-499: one run of the bulk edit.  edits: the displayed
\* rows whose AMOUNT the grid returns changed; button: the button clicked
AdjustmentsPage ==
    \E button \in {"none", "filter", "preview", "save", "back"} :
    \E f \in {{}, {"x"}} :
       LET co == req.selected_company
           applied == IF button = "filter" THEN f ELSE req.adj_applied_filters
           filtered_adj_df ==
               apply_all_filters(tables.ADJUSTMENTS[co], applied, FALSE)
           shown == { filtered_adj_df[i].pk : i \in 1..Len(filtered_adj_df) }
           old_amount(k) ==
               LET i == CHOOSE i \in 1..Len(filtered_adj_df) : filtered_adj_df[i].pk = k
               IN  filtered_adj_df[i].amount
       IN  \E edits \in SUBSET shown :
              LET old == req.pending_amount_changes
                  pending == [k \in (DOMAIN old \ shown) \cup edits |->
                                 IF k \in edits
                                 THEN [old_amount |-> old_amount(k),
                                       new_amount |-> 1 - old_amount(k),
                                       under |-> co]
                                 ELSE old[k]]
                  tracked == [req EXCEPT !.adj_applied_filters = applied,
                                         !.pending_amount_changes = pending]
              IN  /\ button = "filter" => f # req.adj_applied_filters /\ edits = {}
                  /\ button \in {"save", "back"} =>
                        req.show_preview /\ DOMAIN pending # {}
                  /\ CASE button = "preview" /\ DOMAIN pending # {} ->
                            /\ req' = [tracked EXCEPT !.show_preview = TRUE]
                            /\ UNCHANGED <<tables, call>>
                       [] button = "back" ->
                            /\ req' = [tracked EXCEPT !.show_preview = FALSE]
                            /\ UNCHANGED <<tables, call>>
                       [] button = "save" ->
                            \/ /\ tables' = [tables EXCEPT !.ADJUSTMENTS[co] =
                                     [i \in 1..Len(@) |->
                                         IF @[i].pk \in DOMAIN pending
                                         THEN [pk |-> @[i].pk, name |-> @[i].name,
                                               amount |-> pending[@[i].pk].new_amount]
                                         ELSE @[i]]]
                               /\ call' = [company |-> co,
                                           under |-> { pending[k].under : k \in
                                              DOMAIN pending \cap
                                              { tables.ADJUSTMENTS[co][i].pk :
                                                  i \in 1..Len(tables.ADJUSTMENTS[co]) } }]
                               /\ req' = [tracked EXCEPT !.pending_amount_changes = <<>>,
                                                         !.show_preview = FALSE]
                            \/ /\ req' = tracked
                               /\ UNCHANGED <<tables, call>>
                       [] OTHER ->
                            /\ req' = tracked
                            /\ UNCHANGED <<tables, call>>
                  /\ SessionOnly

\* streamlit_app.py 75-105 with utils/session_manager.py clear_company_state
CompanySwitch ==
    /\ \E co \in Range(user_companies) :
          /\ co # req.selected_company
          /\ req' = [req EXCEPT !.selected_company = co,
                                !.edited_rows = {},
                                !.show_preview = FALSE,
                                !.page_offset = 0]
    /\ UNCHANGED <<tables, call>> /\ SessionOnly

SessionSpec ==
    SessionInit /\ [][PageClick \/ CoaFilter \/ CoaEdit \/ CoaPreview \/ CoaConfirm
                      \/ AdjustmentsPage \/ CompanySwitch]_vars

\* C24: company switch clears pending work.  No pending amount change and
\* no change set held in the session state was recorded under a company
\* other than the selected one, and no bulk save has applied to a company's
\* table an entry recorded under another company.
C24_SwitchClearsPendingWork ==
    /\ \A k \in DOMAIN req.pending_amount_changes :
          req.pending_amount_changes[k].under = req.selected_company
    /\ req.changes_to_apply.pks # {} =>
          req.changes_to_apply.under = req.selected_company
    /\ call.under \subseteq {call.company}

\* C30: page offset stays in range.  page_offset is a multiple of
\* rows_per_page between 0 and (total_pages - 1) * rows_per_page, the
\* current page is at most total_pages, and the displayed slice is
\* non-empty whenever the filtered set is.
C30_PageOffsetInRange ==
    /\ req.page_offset % ROWS_PER_PAGE = 0
    /\ 0 <= req.page_offset
    /\ req.page_offset <= (total_pages - 1) * ROWS_PER_PAGE
    /\ current_page <= total_pages
    /\ filtered_df_tab1 # <<>> => page_df # <<>>

----------------------------------------------------------------------------
(* modules/Adjustments.py 'Save Record': two sessions, one request each.    *)
(* tables: the adjustments rows [key, amount, by], key being the full       *)
(* composite key (primary keys, PERIOD, ADJ_TYPE); req[s]: the form of      *)
(* session s; pc[s]: where its handler is; call[s]: the result of its       *)
(* existence check.  The table enforces no uniqueness of the key.           *)

SaveRecordInit ==
    /\ \E t \in { <<>>, << [key |-> 1, amount |-> 0, by |-> 0] >> } : tables = t
    /\ \E k1, k2 \in 1..2 : \E a \in 1..2 :
          req = [s \in Sessions |-> IF s = 1 THEN [key |-> k1, amount |-> a]
                                             ELSE [key |-> k2, amount |-> 3 - a]]
    /\ pc = [s \in Sessions |-> "form"]
    /\ call = [s \in Sessions |-> [exists |-> FALSE]]
    /\ staging = NoStaging /\ changes = <<>> /\ issued = <<>>
    /\ result = NoResult /\ now = 0 /\ cache = <<>>

\* lines 287-296: SELECT COUNT(*) ... WHERE <full key>; an exception ends
\* the handler with st.error
SrCheck(s) ==
    /\ pc[s] = "form"
    /\ \/ /\ call' = [call EXCEPT ![s].exists =
                         \E i \in 1..Len(tables) : tables[i].key = req[s].key]
          /\ pc' = [pc EXCEPT ![s] = "checked"]
       \/ /\ pc' = [pc EXCEPT ![s] = "error"]
          /\ UNCHANGED call
    /\ UNCHANGED <<tables, req, staging, changes, issued, result, now, cache>>

\* lines 298-326: UPDATE ... WHERE <full key> if the check found a row,
\* INSERT otherwise
SrWrite(s) ==
    /\ pc[s] = "checked"
    /\ \/ /\ tables' = IF call[s].exists
                       THEN [i \in 1..Len(tables) |->
                               IF tables[i].key = req[s].key
                               THEN [key |-> tables[i].key,
                                     amount |-> req[s].amount, by |-> s]
                               ELSE tables[i]]
                       ELSE Append(tables, [key |-> req[s].key,
                                            amount |-> req[s].amount, by |-> s])
          /\ pc' = [pc EXCEPT ![s] = "saved"]
       \/ /\ pc' = [pc EXCEPT ![s] = "error"]
          /\ UNCHANGED tables
    /\ UNCHANGED <<req, call, staging, changes, issued, result, now, cache>>

SaveRecordSpec ==
    SaveRecordInit /\ [][\E s \in Sessions : SrCheck(s) \/ SrWrite(s)]_vars

\* C25: single-record save is an atomic upsert.  Whatever the interleaving
\* of the two Save Record requests, the adjustments table never holds two
\* rows with the same full composite key.
C25_SaveIsAtomicUpsert ==
    \A i, j \in 1..Len(tables) : tables[i].key = tables[j].key => i = j

----------------------------------------------------------------------------
(* modules/COA.py TAB 3 with components/hierarchy_editor.py: two sessions   *)
(* adding rows to the metric hierarchy.  tables: the ROW_ID of every row    *)
(* of the hierarchy table, in order; req[s]: original_df, the ids loaded   *)
(* at the start of the script run of session s, and new_rows, the ids in    *)
(* its st.session_state.new_rows_metric_hierarchy; pc[s]: "idle" between   *)
(* runs, "rendered" once the run has loaded and rendered the grid.  The     *)
(* table enforces no uniqueness of ROW_ID.                                  *)

MaxIds == 4             \* largest ROW_ID handed out

Max(S) == CHOOSE x \in S : \A y \in S : y <= x

Ids(seq) == { seq[i] : i \in 1..Len(seq) }

HierarchyKeysInit ==
    /\ tables = <<1, 2>>
    /\ req = [s \in Sessions |-> [original_df |-> <<>>, new_rows |-> <<>>]]
    /\ pc = [s \in Sessions |-> "idle"]
    /\ call = <<>> /\ staging = NoStaging /\ changes = <<>> /\ issued = <<>>
    /\ result = NoResult /\ now = 0 /\ cache = <<>>

HkOnly == UNCHANGED <<call, staging, changes, issued, result, now, cache>>

\* COA.py 489-491, hierarchy_editor.py 66-79: the run loads the table and
\* drops from new_rows the ids that are now in it
HkRender(s) ==
    /\ pc[s] = "idle"
    /\ LET kept(id) == id \notin Ids(tables)
       IN  req' = [req EXCEPT ![s] = [original_df |-> tables,
                                      new_rows |-> SelectSeq(@.new_rows, kept)]]
    /\ pc' = [pc EXCEPT ![s] = "rendered"]
    /\ UNCHANGED tables /\ HkOnly

\* hierarchy_editor.py 107-122: Add New Row, new id = max displayed id + 1
HkAddRow(s) ==
    /\ pc[s] = "rendered"
    /\ LET display_df == req[s].original_df \o req[s].new_rows
           new_id == IF display_df # <<>> THEN Max(Ids(display_df)) + 1 ELSE 1
       IN  /\ new_id <= MaxIds
           /\ req' = [req EXCEPT ![s].new_rows = Append(@, new_id)]
    /\ pc' = [pc EXCEPT ![s] = "idle"]
    /\ UNCHANGED tables /\ HkOnly

\* COA.py 511-540, hierarchy_editor.py 335-410: Save Changes appends the
\* grid rows whose id is not a loaded id; on success new_rows is emptied
HkSave(s) ==
    /\ pc[s] = "rendered"
    /\ LET edited_df == req[s].original_df \o req[s].new_rows
           existing_ids == Ids(req[s].original_df)
           is_new(id) == id \notin existing_ids
           inserts_df == SelectSeq(edited_df, is_new)
       IN  \/ /\ tables' = tables \o inserts_df
              /\ req' = [req EXCEPT ![s].new_rows =
                            IF inserts_df # <<>> THEN <<>> ELSE @]
           \/ /\ inserts_df # <<>>
              /\ UNCHANGED <<tables, req>>
    /\ pc' = [pc EXCEPT ![s] = "idle"]
    /\ HkOnly

HierarchyKeysSpec ==
    HierarchyKeysInit
    /\ [][\E s \in Sessions : HkRender(s) \/ HkAddRow(s) \/ HkSave(s)]_vars

\* C26: hierarchy primary keys stay unique.  After any interleaving of Add
\* New Row and Save Changes in two sessions, the hierarchy table never
\* contains two rows with the same ROW_ID.
C26_HierarchyKeysUnique ==
    \A i, j \in 1..Len(tables) : tables[i] = tables[j] => i = j

====
